---- MODULE Spec2Model ----
(***************************************************************************)
(* Model of the congress-scraper bill transformer                          *)
(* (src/tasks/transformBill.js): the action deduplicator, the action       *)
(* classifier, the status state machine, the history summarizer and        *)
(* transformGovInfoBill, which chains them into one bill record.           *)
(*                                                                         *)
(* Encoding of JavaScript values.  Strings the code inspects character by  *)
(* character (action text, official title) are sequences of one-character  *)
(* strings.  Enumerated strings (status, type, bill type) are TLA+         *)
(* strings.  The value undefined is the string "undefined"; the booleans   *)
(* true and false, where a variable can also be undefined or a captured    *)
(* string, are the strings "true" and "false".                             *)
(***************************************************************************)
EXTENDS Integers, Sequences, FiniteSets, TLC

\* ------------------------------------------------------------------------
\* Bounds of the model
\* ------------------------------------------------------------------------

\* longest raw action list of a bill drawn by Init
MaxActions ==
  2

\* longest raw action list drawn for the deduplicator alone
MaxDedup ==
  2

\* ------------------------------------------------------------------------
\* JavaScript values
\* ------------------------------------------------------------------------

undefined ==
  "undefined"

\* ToBoolean of a captured group, a flag or undefined
Truthy(v) ==
  v \notin {undefined, "false", ""}

\* String.prototype.startsWith on character sequences
StartsWith(s, p) ==
  /\ Len(p) <= Len(s)
  /\ SubSeq(s, 1, Len(p)) = p

\* String.prototype.endsWith on character sequences
EndsWith(s, p) ==
  /\ Len(p) <= Len(s)
  /\ SubSeq(s, Len(s) - Len(p) + 1, Len(s)) = p

\* ------------------------------------------------------------------------
\* Status state machine: new_status_after_vote
\* ------------------------------------------------------------------------

\* "Proposing an amendment to the Constitution of the United States"
ConstAmendPrefix ==
  << "P", "r", "o", "p", "o", "s", "i", "n", "g", " ", "a", "n", " ", "a", "m", "e", "n", "d",
     "m", "e", "n", "t", " ", "t", "o", " ", "t", "h", "e", " ", "C", "o", "n", "s", "t", "i",
     "t", "u", "t", "i", "o", "n", " ", "o", "f", " ", "t", "h", "e", " ", "U", "n", "i", "t",
     "e", "d", " ", "S", "t", "a", "t", "e", "s" >>

\* every value of BillStatus the code can return, and "" (the default of
\* parse_bill_action's prev_status parameter)
Statuses ==
  { "INTRODUCED", "REFERRED", "REPORTED",
    "PASS_OVER:HOUSE", "PASS_OVER:SENATE", "PASS_BACK:HOUSE", "PASS_BACK:SENATE",
    "PASSED:SIMPLERES", "PASSED:CONSTAMEND", "PASSED:CONCURRENTRES", "PASSED:BILL",
    "FAIL:ORIGINATING:HOUSE", "FAIL:ORIGINATING:SENATE",
    "FAIL:SECOND:HOUSE", "FAIL:SECOND:SENATE",
    "PROV_KILL:SUSPENSIONFAILED", "PROV_KILL:PINGPONGFAIL", "PROV_KILL:CLOTUREFAILED",
    "PROV_KILL:VETO",
    "CONFERENCE:PASSED:HOUSE", "CONFERENCE:PASSED:SENATE",
    "VETOED:POCKET",
    "VETOED:OVERRIDE_FAIL_ORIGINATING:HOUSE", "VETOED:OVERRIDE_FAIL_ORIGINATING:SENATE",
    "VETOED:OVERRIDE_FAIL_SECOND:HOUSE", "VETOED:OVERRIDE_FAIL_SECOND:SENATE",
    "VETOED:OVERRIDE_PASS_OVER:HOUSE", "VETOED:OVERRIDE_PASS_OVER:SENATE",
    "ENACTED:SIGNED", "ENACTED:VETO_OVERRIDE", "ENACTED:TENDAYRULE" }

\* prev_status.startsWith("CONFERENCE:PASSED:") over Statuses and ""
StartsWithConferencePassed(prev_status) ==
  prev_status \in {"CONFERENCE:PASSED:HOUSE", "CONFERENCE:PASSED:SENATE"}

\* a vote in the originating chamber with the suspension test missing from
\* the failing branch
StatusAfterVoteNoSuspension(passed, chamber, bill_type, suspension) ==
  IF passed
    THEN IF bill_type = "hres" \/ bill_type = "sres" THEN "PASSED:SIMPLERES"
         ELSE IF chamber = "h" THEN "PASS_OVER:HOUSE"
         ELSE "PASS_OVER:SENATE"
    ELSE IF chamber = "h" THEN "FAIL:ORIGINATING:HOUSE"
         ELSE "FAIL:ORIGINATING:SENATE"

\* vote_type == "vote": a vote in the originating chamber
StatusAfterVote(passed, chamber, bill_type, suspension) ==
  IF passed
    THEN IF bill_type = "hres" \/ bill_type = "sres" THEN "PASSED:SIMPLERES"
         ELSE IF chamber = "h" THEN "PASS_OVER:HOUSE"
         ELSE "PASS_OVER:SENATE"
    ELSE IF Truthy(suspension) THEN "PROV_KILL:SUSPENSIONFAILED"
         ELSE IF chamber = "h" THEN "FAIL:ORIGINATING:HOUSE"
         ELSE "FAIL:ORIGINATING:SENATE"

\* vote_type == "vote2" || vote_type == "pingpong": a vote in the second
\* chamber, or a later vote on the other chamber's amendments
StatusAfterVote2(vote_type, passed, chamber, bill_type, suspension, amended, title) ==
  IF passed
    THEN IF Truthy(amended)
           THEN IF chamber = "h" THEN "PASS_BACK:HOUSE" ELSE "PASS_BACK:SENATE"
           ELSE IF /\ (bill_type = "hjres" \/ bill_type = "sjres")
                   /\ StartsWith(title, ConstAmendPrefix)
                  THEN "PASSED:CONSTAMEND"
                ELSE IF bill_type = "hconres" \/ bill_type = "sconres"
                  THEN "PASSED:CONCURRENTRES"
                ELSE "PASSED:BILL"
    ELSE IF vote_type = "pingpong" THEN "PROV_KILL:PINGPONGFAIL"
         ELSE IF Truthy(suspension) THEN "PROV_KILL:SUSPENSIONFAILED"
         ELSE IF chamber = "h" THEN "FAIL:SECOND:HOUSE"
         ELSE "FAIL:SECOND:SENATE"

\* vote_type == "cloture"
StatusAfterCloture(passed) ==
  IF ~passed THEN "PROV_KILL:CLOTUREFAILED" ELSE undefined

\* vote_type == "override"; bill_type == chamber compares the whole bill
\* type ("hr", "s", "hjres", ...) with the chamber letter ("h" or "s")
StatusAfterOverride(passed, chamber, bill_type) ==
  IF ~passed
    THEN IF bill_type = chamber
           THEN IF chamber = "h" THEN "VETOED:OVERRIDE_FAIL_ORIGINATING:HOUSE"
                ELSE "VETOED:OVERRIDE_FAIL_ORIGINATING:SENATE"
           ELSE IF chamber = "h" THEN "VETOED:OVERRIDE_FAIL_SECOND:HOUSE"
                ELSE "VETOED:OVERRIDE_FAIL_SECOND:SENATE"
    ELSE IF bill_type = chamber
           THEN IF chamber = "h" THEN "VETOED:OVERRIDE_PASS_OVER:HOUSE"
                ELSE "VETOED:OVERRIDE_PASS_OVER:SENATE"
           ELSE "ENACTED:VETO_OVERRIDE"

\* a conference-report vote without the test of the prior status
StatusAfterConferenceNoPrev(passed, chamber, bill_type, title, prev_status) ==
  IF passed
    THEN IF chamber = "h" THEN "CONFERENCE:PASSED:HOUSE" ELSE "CONFERENCE:PASSED:SENATE"
    ELSE undefined

\* vote_type == "conference"
StatusAfterConference(passed, chamber, bill_type, title, prev_status) ==
  IF passed
    THEN IF StartsWithConferencePassed(prev_status)
           THEN IF /\ (bill_type = "hjres" \/ bill_type = "sjres")
                   /\ StartsWith(title, ConstAmendPrefix)
                  THEN "PASSED:CONSTAMEND"
                ELSE IF bill_type = "hconres" \/ bill_type = "sconres"
                  THEN "PASSED:CONCURRENTRES"
                ELSE "PASSED:BILL"
           ELSE IF chamber = "h" THEN "CONFERENCE:PASSED:HOUSE"
                ELSE "CONFERENCE:PASSED:SENATE"
    ELSE undefined

new_status_after_vote(vote_type, passed, chamber, bill_type, suspension, amended, title, prev_status) ==
  IF vote_type = "vote"
    THEN StatusAfterVote(passed, chamber, bill_type, suspension)
  ELSE IF vote_type = "vote2" \/ vote_type = "pingpong"
    THEN StatusAfterVote2(vote_type, passed, chamber, bill_type, suspension, amended, title)
  ELSE IF vote_type = "cloture"
    THEN StatusAfterCloture(passed)
  ELSE IF vote_type = "override"
    THEN StatusAfterOverride(passed, chamber, bill_type)
  ELSE IF vote_type = "conference"
    THEN StatusAfterConference(passed, chamber, bill_type, title, prev_status)
  ELSE undefined

\* ------------------------------------------------------------------------
\* Action deduplicator: action_for and actions_for.keep_action
\* ------------------------------------------------------------------------

\* the dates and times new Date() parses; any other value of actionDate or
\* actionTime (here undefined, an absent field) gives an Invalid Date
ValidDates ==
  {"2020-01-01", "2020-01-02"}

ValidTimes ==
  {"10:00:00", "11:00:00"}

\* new Date(`${actionDate}${actionTime ? `T${actionTime}` : ""}`) is a valid
\* date; toISOString throws a RangeError on an invalid one
ValidTimestamp(actionDate, actionTime) ==
  /\ actionDate \in ValidDates
  /\ (Truthy(actionTime) => actionTime \in ValidTimes)

\* new Date(...).toISOString(): a date without a time is midnight UTC
ToISOString(actionDate, actionTime) ==
  [ date |-> actionDate,
    time |-> IF Truthy(actionTime) THEN actionTime ELSE "00:00:00" ]

IsSpace(c) ==
  c \in {" ", "\t", "\n", "\r"}

\* index of the last character of a match of /r<\/?[Aa]( \S.*?)?>/ starting
\* at position i of t, or 0 when there is none
LinkEnd(t, i) ==
  LET n == Len(t)
      ch(k) == IF k <= n THEN t[k] ELSE ""
      j == IF ch(i + 2) = "/" THEN i + 3 ELSE i + 2   \* position of [Aa]
      closers == { k \in (j + 3)..n :
                     /\ t[k] = ">"
                     /\ \A q \in (j + 3)..(k - 1) : t[q] \notin {"\n", "\r"} }
  IN IF ~(ch(i) = "r" /\ ch(i + 1) = "<" /\ ch(j) \in {"A", "a"}) THEN 0
     ELSE IF /\ ch(j + 1) = " "
             /\ j + 2 <= n /\ ~IsSpace(t[j + 2])
             /\ closers # {}
       THEN CHOOSE k \in closers : \A q \in closers : k <= q
     ELSE IF ch(j + 1) = ">" THEN j + 1
     ELSE 0

RECURSIVE StripLinksFrom(_, _)
StripLinksFrom(t, i) ==
  LET starts == { k \in i..Len(t) : LinkEnd(t, k) # 0 }
      first == CHOOSE k \in starts : \A q \in starts : k <= q
  IN IF starts = {} THEN SubSeq(t, i, Len(t))
     ELSE SubSeq(t, i, first - 1) \o StripLinksFrom(t, LinkEnd(t, first) + 1)

\* text.replace(/r<\/?[Aa]( \S.*?)?>/g, "")
StripLinks(t) ==
  StripLinksFrom(t, 1)

\* text.replace(" ", ""): a string pattern replaces the first occurrence only
ReplaceFirstSpace(t) ==
  IF \E i \in 1..Len(t) : t[i] = " "
    THEN LET i == CHOOSE k \in 1..Len(t) : t[k] = " " /\ \A q \in 1..(k - 1) : t[q] # " "
         IN SubSeq(t, 1, i - 1) \o SubSeq(t, i + 1, Len(t))
    ELSE t

\* action_for throws (RangeError: Invalid time value)
action_for_throws(item) ==
  ~ValidTimestamp(item.actionDate, item.actionTime)

\* action_for: the action record before classification
action_for(item) ==
  [ acted_at |-> ToISOString(item.actionDate, item.actionTime),
    action_code |-> item.actionCode,
    type |-> "action",
    text |-> StripLinks(item.text) ]

\* action_for(item)['text'].replace(" ", "").endsWith(
\*    action_for(closure["prev"])['text'].replace(" ", ""))
SameStrippedText(item, prev) ==
  EndsWith(ReplaceFirstSpace(action_for(item).text),
           ReplaceFirstSpace(action_for(prev).text))

\* closure['prev'] is a one-element sequence, or empty while it is unset.
\* keep_action(item) under closure prev: "true" or "false" (what filter gets),
\* or the error it throws.
keep_action(item, prev) ==
  IF item.text = << >> THEN "false"
  ELSE IF prev = << >> THEN "true"
  ELSE IF item.sourceSystem = undefined THEN "TypeError"
  ELSE IF item.sourceSystem # "9" THEN "true"
  ELSE IF item.actionDate # prev[1].actionDate THEN "true"
  ELSE IF ~( \/ item.actionTime = prev[1].actionTime
             \/ ~Truthy(item.actionTime)
             \/ ~Truthy(prev[1].actionTime) ) THEN "true"
  ELSE IF action_for_throws(item) \/ action_for_throws(prev[1]) THEN "RangeError"
  ELSE IF SameStrippedText(item, prev[1]) THEN "false"
  ELSE "true"

\* closure['prev'] assigned only for an action that is kept
prev_after_kept(item, prev) ==
  IF keep_action(item, prev) = "true" THEN <<item>> ELSE prev

\* closure['prev'] after keep_action(item): an item without text returns
\* before the assignment, a throw never reaches it
prev_after(item, prev) ==
  IF item.text = << >> \/ keep_action(item, prev) \in {"TypeError", "RangeError"}
    THEN prev
    ELSE <<item>>

\* the bill types and vote types of the program
BillTypes ==
  {"hr", "hres", "hjres", "hconres", "s", "sres", "sjres", "sconres"}

VoteTypes ==
  {"vote", "vote2", "pingpong", "cloture", "override", "conference"}

\* an official title of a constitutional amendment, the same title one
\* character short of the tested prefix, and no title
ConstAmendTitle ==
  ConstAmendPrefix \o <<" ", "r", "e", "l", "a", "t", "i", "v", "e", " ", "t", "o", " ", "x", ".">>

NearMissTitle ==
  SubSeq(ConstAmendPrefix, 1, Len(ConstAmendPrefix) - 1)

VoteTitles ==
  {ConstAmendTitle, NearMissTitle, << >>}

NoVote ==
  [ vote_type |-> undefined, passed |-> FALSE, chamber |-> "h", bill_type |-> "hr",
    suspension |-> undefined, amended |-> undefined, title |-> << >>, prev_status |-> "" ]

\* ------------------------------------------------------------------------
\* Catalog of action texts (as in the BILLSTATUS bulk data)
\* ------------------------------------------------------------------------

\* the texts of the actions: what the rules of parse_bill_action are tried on
T ==
  [
    \* "Introduced in House"
    introduced |->
      << "I", "n", "t", "r", "o", "d", "u", "c", "e", "d", " ", "i", "n", " ", "H", "o", "u", "s", "e" >>,
    \* "Referred to the House Committee on Ways and Means."
    referred |->
      << "R", "e", "f", "e", "r", "r", "e", "d", " ", "t", "o", " ", "t", "h", "e", " ", "H", "o",
         "u", "s", "e", " ", "C", "o", "m", "m", "i", "t", "t", "e", "e", " ", "o", "n", " ",
         "W", "a", "y", "s", " ", "a", "n", "d", " ", "M", "e", "a", "n", "s", "." >>,
    \* "Committee on the Judiciary. Reported by Senator Leahy without amendment."
    reported |->
      << "C", "o", "m", "m", "i", "t", "t", "e", "e", " ", "o", "n", " ", "t", "h", "e", " ", "J",
         "u", "d", "i", "c", "i", "a", "r", "y", ".", " ", "R", "e", "p", "o", "r", "t", "e",
         "d", " ", "b", "y", " ", "S", "e", "n", "a", "t", "o", "r", " ", "L", "e", "a", "h",
         "y", " ", "w", "i", "t", "h", "o", "u", "t", " ", "a", "m", "e", "n", "d", "m", "e",
         "n", "t", "." >>,
    \* "Placed on Senate Legislative Calendar under General Orders. Calendar No. 12."
    calendar |->
      << "P", "l", "a", "c", "e", "d", " ", "o", "n", " ", "S", "e", "n", "a", "t", "e", " ", "L",
         "e", "g", "i", "s", "l", "a", "t", "i", "v", "e", " ", "C", "a", "l", "e", "n", "d",
         "a", "r", " ", "u", "n", "d", "e", "r", " ", "G", "e", "n", "e", "r", "a", "l", " ",
         "O", "r", "d", "e", "r", "s", ".", " ", "C", "a", "l", "e", "n", "d", "a", "r", " ",
         "N", "o", ".", " ", "1", "2", "." >>,
    \* "On passage Passed by voice vote."
    hpass |->
      << "O", "n", " ", "p", "a", "s", "s", "a", "g", "e", " ", "P", "a", "s", "s", "e", "d", " ",
         "b", "y", " ", "v", "o", "i", "c", "e", " ", "v", "o", "t", "e", "." >>,
    \* "Passed/agreed to in House: On passage Passed by voice vote."
    loc_hpass |->
      << "P", "a", "s", "s", "e", "d", "/", "a", "g", "r", "e", "e", "d", " ", "t", "o", " ", "i",
         "n", " ", "H", "o", "u", "s", "e", ":", " ", "O", "n", " ", "p", "a", "s", "s", "a",
         "g", "e", " ", "P", "a", "s", "s", "e", "d", " ", "b", "y", " ", "v", "o", "i", "c",
         "e", " ", "v", "o", "t", "e", "." >>,
    \* "On motion to suspend the rules and pass the bill Failed by the Yeas and Nays: (2/3 required): 200 - 210 (Roll no. 12)."
    hfail_susp |->
      << "O", "n", " ", "m", "o", "t", "i", "o", "n", " ", "t", "o", " ", "s", "u", "s", "p", "e",
         "n", "d", " ", "t", "h", "e", " ", "r", "u", "l", "e", "s", " ", "a", "n", "d", " ",
         "p", "a", "s", "s", " ", "t", "h", "e", " ", "b", "i", "l", "l", " ", "F", "a", "i",
         "l", "e", "d", " ", "b", "y", " ", "t", "h", "e", " ", "Y", "e", "a", "s", " ", "a",
         "n", "d", " ", "N", "a", "y", "s", ":", " ", "(", "2", "/", "3", " ", "r", "e", "q",
         "u", "i", "r", "e", "d", ")", ":", " ", "2", "0", "0", " ", "-", " ", "2", "1", "0",
         " ", "(", "R", "o", "l", "l", " ", "n", "o", ".", " ", "1", "2", ")", "." >>,
    \* "On agreeing to the resolution Agreed to without objection."
    hres_agreed |->
      << "O", "n", " ", "a", "g", "r", "e", "e", "i", "n", "g", " ", "t", "o", " ", "t", "h", "e",
         " ", "r", "e", "s", "o", "l", "u", "t", "i", "o", "n", " ", "A", "g", "r", "e", "e",
         "d", " ", "t", "o", " ", "w", "i", "t", "h", "o", "u", "t", " ", "o", "b", "j", "e",
         "c", "t", "i", "o", "n", "." >>,
    \* "On agreeing to the conference report Agreed to by the Yeas and Nays: 300 - 100 (Roll no. 15)."
    hconf |->
      << "O", "n", " ", "a", "g", "r", "e", "e", "i", "n", "g", " ", "t", "o", " ", "t", "h", "e",
         " ", "c", "o", "n", "f", "e", "r", "e", "n", "c", "e", " ", "r", "e", "p", "o", "r",
         "t", " ", "A", "g", "r", "e", "e", "d", " ", "t", "o", " ", "b", "y", " ", "t", "h",
         "e", " ", "Y", "e", "a", "s", " ", "a", "n", "d", " ", "N", "a", "y", "s", ":", " ",
         "3", "0", "0", " ", "-", " ", "1", "0", "0", " ", "(", "R", "o", "l", "l", " ", "n",
         "o", ".", " ", "1", "5", ")", "." >>,
    \* "On passage, the objections of the President to the contrary notwithstanding Passed by the Yeas and Nays: (2/3 required): 300 - 100 (Roll no. 13)."
    hoverride |->
      << "O", "n", " ", "p", "a", "s", "s", "a", "g", "e", ",", " ", "t", "h", "e", " ", "o", "b",
         "j", "e", "c", "t", "i", "o", "n", "s", " ", "o", "f", " ", "t", "h", "e", " ", "P",
         "r", "e", "s", "i", "d", "e", "n", "t", " ", "t", "o", " ", "t", "h", "e", " ", "c",
         "o", "n", "t", "r", "a", "r", "y", " ", "n", "o", "t", "w", "i", "t", "h", "s", "t",
         "a", "n", "d", "i", "n", "g", " ", "P", "a", "s", "s", "e", "d", " ", "b", "y", " ",
         "t", "h", "e", " ", "Y", "e", "a", "s", " ", "a", "n", "d", " ", "N", "a", "y", "s",
         ":", " ", "(", "2", "/", "3", " ", "r", "e", "q", "u", "i", "r", "e", "d", ")", ":",
         " ", "3", "0", "0", " ", "-", " ", "1", "0", "0", " ", "(", "R", "o", "l", "l", " ",
         "n", "o", ".", " ", "1", "3", ")", "." >>,
    \* "Passed House pursuant to H. Res. 5."
    hspecial |->
      << "P", "a", "s", "s", "e", "d", " ", "H", "o", "u", "s", "e", " ", "p", "u", "r", "s", "u",
         "a", "n", "t", " ", "t", "o", " ", "H", ".", " ", "R", "e", "s", ".", " ", "5", "." >>,
    \* "On motion to table the measure Agreed to by voice vote."
    htable |->
      << "O", "n", " ", "m", "o", "t", "i", "o", "n", " ", "t", "o", " ", "t", "a", "b", "l", "e",
         " ", "t", "h", "e", " ", "m", "e", "a", "s", "u", "r", "e", " ", "A", "g", "r", "e",
         "e", "d", " ", "t", "o", " ", "b", "y", " ", "v", "o", "i", "c", "e", " ", "v", "o",
         "t", "e", "." >>,
    \* "Passed Senate without amendment by Unanimous Consent."
    spass |->
      << "P", "a", "s", "s", "e", "d", " ", "S", "e", "n", "a", "t", "e", " ", "w", "i", "t", "h",
         "o", "u", "t", " ", "a", "m", "e", "n", "d", "m", "e", "n", "t", " ", "b", "y", " ",
         "U", "n", "a", "n", "i", "m", "o", "u", "s", " ", "C", "o", "n", "s", "e", "n", "t",
         "." >>,
    \* "Passed Senate with an amendment by Voice Vote."
    spass_amended |->
      << "P", "a", "s", "s", "e", "d", " ", "S", "e", "n", "a", "t", "e", " ", "w", "i", "t", "h",
         " ", "a", "n", " ", "a", "m", "e", "n", "d", "m", "e", "n", "t", " ", "b", "y", " ",
         "V", "o", "i", "c", "e", " ", "V", "o", "t", "e", "." >>,
    \* "Resolution agreed to in Senate without amendment by Unanimous Consent."
    sres_agreed |->
      << "R", "e", "s", "o", "l", "u", "t", "i", "o", "n", " ", "a", "g", "r", "e", "e", "d", " ",
         "t", "o", " ", "i", "n", " ", "S", "e", "n", "a", "t", "e", " ", "w", "i", "t", "h",
         "o", "u", "t", " ", "a", "m", "e", "n", "d", "m", "e", "n", "t", " ", "b", "y", " ",
         "U", "n", "a", "n", "i", "m", "o", "u", "s", " ", "C", "o", "n", "s", "e", "n", "t",
         "." >>,
    \* "Senate agreed to conference report by Unanimous Consent."
    sconf |->
      << "S", "e", "n", "a", "t", "e", " ", "a", "g", "r", "e", "e", "d", " ", "t", "o", " ", "c",
         "o", "n", "f", "e", "r", "e", "n", "c", "e", " ", "r", "e", "p", "o", "r", "t", " ",
         "b", "y", " ", "U", "n", "a", "n", "i", "m", "o", "u", "s", " ", "C", "o", "n", "s",
         "e", "n", "t", "." >>,
    \* "Passed Senate over veto by Yea-Nay Vote. 70 - 30. Record Vote Number: 14."
    soverride |->
      << "P", "a", "s", "s", "e", "d", " ", "S", "e", "n", "a", "t", "e", " ", "o", "v", "e", "r",
         " ", "v", "e", "t", "o", " ", "b", "y", " ", "Y", "e", "a", "-", "N", "a", "y", " ",
         "V", "o", "t", "e", ".", " ", "7", "0", " ", "-", " ", "3", "0", ".", " ", "R", "e",
         "c", "o", "r", "d", " ", "V", "o", "t", "e", " ", "N", "u", "m", "b", "e", "r", ":",
         " ", "1", "4", "." >>,
    \* "Cloture on the motion to proceed to the bill not invoked in Senate by Yea-Nay Vote. 50 - 48. Record Vote Number: 16."
    cloture_failed |->
      << "C", "l", "o", "t", "u", "r", "e", " ", "o", "n", " ", "t", "h", "e", " ", "m", "o", "t",
         "i", "o", "n", " ", "t", "o", " ", "p", "r", "o", "c", "e", "e", "d", " ", "t", "o",
         " ", "t", "h", "e", " ", "b", "i", "l", "l", " ", "n", "o", "t", " ", "i", "n", "v",
         "o", "k", "e", "d", " ", "i", "n", " ", "S", "e", "n", "a", "t", "e", " ", "b", "y",
         " ", "Y", "e", "a", "-", "N", "a", "y", " ", "V", "o", "t", "e", ".", " ", "5", "0",
         " ", "-", " ", "4", "8", ".", " ", "R", "e", "c", "o", "r", "d", " ", "V", "o", "t",
         "e", " ", "N", "u", "m", "b", "e", "r", ":", " ", "1", "6", "." >>,
    \* "Motion to reconsider laid on the table Agreed to without objection."
    reconsider |->
      << "M", "o", "t", "i", "o", "n", " ", "t", "o", " ", "r", "e", "c", "o", "n", "s", "i", "d",
         "e", "r", " ", "l", "a", "i", "d", " ", "o", "n", " ", "t", "h", "e", " ", "t", "a",
         "b", "l", "e", " ", "A", "g", "r", "e", "e", "d", " ", "t", "o", " ", "w", "i", "t",
         "h", "o", "u", "t", " ", "o", "b", "j", "e", "c", "t", "i", "o", "n", "." >>,
    \* "Committee on Finance. Hearings held."
    hearings |->
      << "C", "o", "m", "m", "i", "t", "t", "e", "e", " ", "o", "n", " ", "F", "i", "n", "a", "n",
         "c", "e", ".", " ", "H", "e", "a", "r", "i", "n", "g", "s", " ", "h", "e", "l", "d",
         "." >>,
    \* "Committee on Finance. Discharged by Unanimous Consent."
    discharged |->
      << "C", "o", "m", "m", "i", "t", "t", "e", "e", " ", "o", "n", " ", "F", "i", "n", "a", "n",
         "c", "e", ".", " ", "D", "i", "s", "c", "h", "a", "r", "g", "e", "d", " ", "b", "y",
         " ", "U", "n", "a", "n", "i", "m", "o", "u", "s", " ", "C", "o", "n", "s", "e", "n",
         "t", "." >>,
    \* "Presented to President."
    topresident |->
      << "P", "r", "e", "s", "e", "n", "t", "e", "d", " ", "t", "o", " ", "P", "r", "e", "s", "i",
         "d", "e", "n", "t", "." >>,
    \* "Signed by President."
    signed |->
      << "S", "i", "g", "n", "e", "d", " ", "b", "y", " ", "P", "r", "e", "s", "i", "d", "e", "n",
         "t", "." >>,
    \* "Vetoed by President."
    vetoed |->
      << "V", "e", "t", "o", "e", "d", " ", "b", "y", " ", "P", "r", "e", "s", "i", "d", "e", "n",
         "t", "." >>,
    \* "Pocket Vetoed by President."
    pocket |->
      << "P", "o", "c", "k", "e", "t", " ", "V", "e", "t", "o", "e", "d", " ", "b", "y", " ", "P",
         "r", "e", "s", "i", "d", "e", "n", "t", "." >>,
    \* "Sent to Archivist of the United States unsigned."
    tenday |->
      << "S", "e", "n", "t", " ", "t", "o", " ", "A", "r", "c", "h", "i", "v", "i", "s", "t", " ",
         "o", "f", " ", "t", "h", "e", " ", "U", "n", "i", "t", "e", "d", " ", "S", "t", "a",
         "t", "e", "s", " ", "u", "n", "s", "i", "g", "n", "e", "d", "." >>,
    \* "Became Public Law No: 116-123."
    law |->
      << "B", "e", "c", "a", "m", "e", " ", "P", "u", "b", "l", "i", "c", " ", "L", "a", "w", " ",
         "N", "o", ":", " ", "1", "1", "6", "-", "1", "2", "3", "." >>,
    \* "Sponsor introductory remarks on measure. (CR H123)"
    remarks |->
      << "S", "p", "o", "n", "s", "o", "r", " ", "i", "n", "t", "r", "o", "d", "u", "c", "t", "o",
         "r", "y", " ", "r", "e", "m", "a", "r", "k", "s", " ", "o", "n", " ", "m", "e", "a",
         "s", "u", "r", "e", ".", " ", "(", "C", "R", " ", "H", "1", "2", "3", ")" >>,
    \* "H.Amdt.12 On agreeing to the Smith amendment Agreed to by voice vote."
    amendment |->
      << "H", ".", "A", "m", "d", "t", ".", "1", "2", " ", "O", "n", " ", "a", "g", "r", "e", "e",
         "i", "n", "g", " ", "t", "o", " ", "t", "h", "e", " ", "S", "m", "i", "t", "h", " ",
         "a", "m", "e", "n", "d", "m", "e", "n", "t", " ", "A", "g", "r", "e", "e", "d", " ",
         "t", "o", " ", "b", "y", " ", "v", "o", "i", "c", "e", " ", "v", "o", "t", "e", "." >>,
    \* "Referred to the Committee on Finance. Reported by Senator Wyden without amendment."
    referred_reported |->
      << "R", "e", "f", "e", "r", "r", "e", "d", " ", "t", "o", " ", "t", "h", "e", " ", "C", "o",
         "m", "m", "i", "t", "t", "e", "e", " ", "o", "n", " ", "F", "i", "n", "a", "n", "c",
         "e", ".", " ", "R", "e", "p", "o", "r", "t", "e", "d", " ", "b", "y", " ", "S", "e",
         "n", "a", "t", "o", "r", " ", "W", "y", "d", "e", "n", " ", "w", "i", "t", "h", "o",
         "u", "t", " ", "a", "m", "e", "n", "d", "m", "e", "n", "t", "." >>,
    \* "Became Private Law No: 116-1."
    private_law |->
      << "B", "e", "c", "a", "m", "e", " ", "P", "r", "i", "v", "a", "t", "e", " ", "L", "a", "w",
         " ", "N", "o", ":", " ", "1", "1", "6", "-", "1", "." >>,
    \* "Ordered to be Reported by Voice Vote."
    ordered |->
      << "O", "r", "d", "e", "r", "e", "d", " ", "t", "o", " ", "b", "e", " ", "R", "e", "p", "o",
         "r", "t", "e", "d", " ", "b", "y", " ", "V", "o", "i", "c", "e", " ", "V", "o", "t",
         "e", "." >>,
    \* "Referred to the Committee on Finance. Discharged by Unanimous Consent."
    referred_discharged |->
      << "R", "e", "f", "e", "r", "r", "e", "d", " ", "t", "o", " ", "t", "h", "e", " ", "C", "o",
         "m", "m", "i", "t", "t", "e", "e", " ", "o", "n", " ", "F", "i", "n", "a", "n", "c",
         "e", ".", " ", "D", "i", "s", "c", "h", "a", "r", "g", "e", "d", " ", "b", "y", " ",
         "U", "n", "a", "n", "i", "m", "o", "u", "s", " ", "C", "o", "n", "s", "e", "n", "t",
         "." >>,
    \* "S.Amdt.12 Referred to the Committee on Finance."
    amendment_referred |->
      << "S", ".", "A", "m", "d", "t", ".", "1", "2", " ", "R", "e", "f", "e", "r", "r", "e", "d",
         " ", "t", "o", " ", "t", "h", "e", " ", "C", "o", "m", "m", "i", "t", "t", "e", "e",
         " ", "o", "n", " ", "F", "i", "n", "a", "n", "c", "e", "." >> ]

CatalogTexts ==
  { T.introduced, T.referred, T.reported, T.calendar,
    T.hpass, T.loc_hpass, T.hfail_susp, T.hres_agreed,
    T.hconf, T.hoverride, T.hspecial, T.htable,
    T.spass, T.spass_amended, T.sres_agreed, T.sconf,
    T.soverride, T.cloture_failed, T.reconsider, T.hearings,
    T.discharged, T.topresident, T.signed, T.vetoed,
    T.pocket, T.tenday, T.law, T.remarks,
    T.amendment, T.referred_reported, T.private_law, T.ordered,
    T.referred_discharged, T.amendment_referred }

\* the literals of the case-insensitive tests of parse_bill_action, in lower
\* case (sent_to_archivist and as_amended keep their case: their tests have no
\* flag i)

L ==
  [ passed_house |->
      \* passed house
      << "p", "a", "s", "s", "e", "d", " ", "h", "o", "u", "s", "e" >>,
    house_agreed_to |->
      \* house agreed to
      << "h", "o", "u", "s", "e", " ", "a", "g", "r", "e", "e", "d", " ", "t", "o" >>,
    ayes_had_prevailed |->
      \* ayes had prevailed
      << "a", "y", "e", "s", " ", "h", "a", "d", " ", "p", "r", "e", "v", "a", "i", "l", "e", "d" >>,
    yeas_had_prevailed |->
      \* yeas had prevailed
      << "y", "e", "a", "s", " ", "h", "a", "d", " ", "p", "r", "e", "v", "a", "i", "l", "e", "d" >>,
    two_thirds |->
      \* two-thirds of the members present
      << "t", "w", "o", "-", "t", "h", "i", "r", "d", "s", " ", "o", "f", " ", "t", "h", "e", " ",
         "m", "e", "m", "b", "e", "r", "s", " ", "p", "r", "e", "s", "e", "n", "t" >>,
    agree_to_senate_amdt |->
      \* agree to the senate amendment
      << "a", "g", "r", "e", "e", " ", "t", "o", " ", "t", "h", "e", " ", "s", "e", "n", "a", "t",
         "e", " ", "a", "m", "e", "n", "d", "m", "e", "n", "t" >>,
    agree_with_amdt_to_senate_amdt |->
      \* agree with an amendment to the senate amendment
      << "a", "g", "r", "e", "e", " ", "w", "i", "t", "h", " ", "a", "n", " ", "a", "m", "e", "n",
         "d", "m", "e", "n", "t", " ", "t", "o", " ", "t", "h", "e", " ", "s", "e", "n",
         "a", "t", "e", " ", "a", "m", "e", "n", "d", "m", "e", "n", "t" >>,
    concur_in_senate_amdt |->
      \* concur in the senate amendment
      << "c", "o", "n", "c", "u", "r", " ", "i", "n", " ", "t", "h", "e", " ", "s", "e", "n", "a",
         "t", "e", " ", "a", "m", "e", "n", "d", "m", "e", "n", "t" >>,
    conference_report |->
      \* conference report
      << "c", "o", "n", "f", "e", "r", "e", "n", "c", "e", " ", "r", "e", "p", "o", "r", "t" >>,
    suspend_the_rules |->
      \* on motion to suspend the rules
      << "o", "n", " ", "m", "o", "t", "i", "o", "n", " ", "t", "o", " ", "s", "u", "s", "p", "e",
         "n", "d", " ", "t", "h", "e", " ", "r", "u", "l", "e", "s" >>,
    house_agree_with_amdt |->
      \* the house agree with an amendment
      << "t", "h", "e", " ", "h", "o", "u", "s", "e", " ", "a", "g", "r", "e", "e", " ", "w", "i",
         "t", "h", " ", "a", "n", " ", "a", "m", "e", "n", "d", "m", "e", "n", "t" >>,
    passed_house_pursuant |->
      \* passed house pursuant to
      << "p", "a", "s", "s", "e", "d", " ", "h", "o", "u", "s", "e", " ", "p", "u", "r", "s", "u",
         "a", "n", "t", " ", "t", "o" >>,
    house_agreed_pursuant |->
      \* house agreed to senate amendment pursuant to
      << "h", "o", "u", "s", "e", " ", "a", "g", "r", "e", "e", "d", " ", "t", "o", " ", "s", "e",
         "n", "a", "t", "e", " ", "a", "m", "e", "n", "d", "m", "e", "n", "t", " ", "p",
         "u", "r", "s", "u", "a", "n", "t", " ", "t", "o" >>,
    house_agreed_with_amdt_pursuant |->
      \* house agreed to senate amendment with amendment pursuant to
      << "h", "o", "u", "s", "e", " ", "a", "g", "r", "e", "e", "d", " ", "t", "o", " ", "s", "e",
         "n", "a", "t", "e", " ", "a", "m", "e", "n", "d", "m", "e", "n", "t", " ", "w",
         "i", "t", "h", " ", "a", "m", "e", "n", "d", "m", "e", "n", "t", " ", "p", "u",
         "r", "s", "u", "a", "n", "t", " ", "t", "o" >>,
    agreed_to_senate_amdt |->
      \* agreed to senate amendment
      << "a", "g", "r", "e", "e", "d", " ", "t", "o", " ", "s", "e", "n", "a", "t", "e", " ", "a",
         "m", "e", "n", "d", "m", "e", "n", "t" >>,
    with_amendment |->
      \* with amendment
      << "w", "i", "t", "h", " ", "a", "m", "e", "n", "d", "m", "e", "n", "t" >>,
    as_amended |->
      \* as amended
      << "a", "s", " ", "a", "m", "e", "n", "d", "e", "d" >>,
    disagreed |->
      \* disagreed
      << "d", "i", "s", "a", "g", "r", "e", "e", "d" >>,
    not_invoked |->
      \* not invoked
      << "n", "o", "t", " ", "i", "n", "v", "o", "k", "e", "d" >>,
    passed |->
      \* passed
      << "p", "a", "s", "s", "e", "d" >>,
    agreed |->
      \* agreed
      << "a", "g", "r", "e", "e", "d" >>,
    concurred |->
      \* concurred
      << "c", "o", "n", "c", "u", "r", "r", "e", "d" >>,
    invoked |->
      \* invoked
      << "i", "n", "v", "o", "k", "e", "d" >>,
    over_veto |->
      \* over veto
      << "o", "v", "e", "r", " ", "v", "e", "t", "o" >>,
    cloture |->
      \* cloture
      << "c", "l", "o", "t", "u", "r", "e" >>,
    senate_agreed_house_amdt |->
      \* senate agreed to house amendment
      << "s", "e", "n", "a", "t", "e", " ", "a", "g", "r", "e", "e", "d", " ", "t", "o", " ", "h",
         "o", "u", "s", "e", " ", "a", "m", "e", "n", "d", "m", "e", "n", "t" >>,
    senate_agreed_the_house_amdt |->
      \* senate agreed to the house amendment
      << "s", "e", "n", "a", "t", "e", " ", "a", "g", "r", "e", "e", "d", " ", "t", "o", " ", "t",
         "h", "e", " ", "h", "o", "u", "s", "e", " ", "a", "m", "e", "n", "d", "m", "e",
         "n", "t" >>,
    senate_concurred_house_amdt |->
      \* senate concurred in house amendment
      << "s", "e", "n", "a", "t", "e", " ", "c", "o", "n", "c", "u", "r", "r", "e", "d", " ", "i",
         "n", " ", "h", "o", "u", "s", "e", " ", "a", "m", "e", "n", "d", "m", "e", "n", "t" >>,
    senate_concurred_the_house_amdt |->
      \* senate concurred in the house amendment
      << "s", "e", "n", "a", "t", "e", " ", "c", "o", "n", "c", "u", "r", "r", "e", "d", " ", "i",
         "n", " ", "t", "h", "e", " ", "h", "o", "u", "s", "e", " ", "a", "m", "e", "n",
         "d", "m", "e", "n", "t" >>,
    with_amendments |->
      \* with amendments
      << "w", "i", "t", "h", " ", "a", "m", "e", "n", "d", "m", "e", "n", "t", "s" >>,
    with_an_amendment |->
      \* with an amendment
      << "w", "i", "t", "h", " ", "a", "n", " ", "a", "m", "e", "n", "d", "m", "e", "n", "t" >>,
    seek_suspension |->
      \* committee agreed to seek consideration under suspension of the rules
      << "c", "o", "m", "m", "i", "t", "t", "e", "e", " ", "a", "g", "r", "e", "e", "d", " ", "t",
         "o", " ", "s", "e", "e", "k", " ", "c", "o", "n", "s", "i", "d", "e", "r", "a",
         "t", "i", "o", "n", " ", "u", "n", "d", "e", "r", " ", "s", "u", "s", "p", "e",
         "n", "s", "i", "o", "n", " ", "o", "f", " ", "t", "h", "e", " ", "r", "u", "l",
         "e", "s" >>,
    ordered_reported |->
      \* ordered to be reported
      << "o", "r", "d", "e", "r", "e", "d", " ", "t", "o", " ", "b", "e", " ", "r", "e", "p", "o",
         "r", "t", "e", "d" >>,
    cleared_white_house |->
      \* cleared for white house
      << "c", "l", "e", "a", "r", "e", "d", " ", "f", "o", "r", " ", "w", "h", "i", "t", "e", " ",
         "h", "o", "u", "s", "e" >>,
    presented_to_president |->
      \* presented to president
      << "p", "r", "e", "s", "e", "n", "t", "e", "d", " ", "t", "o", " ", "p", "r", "e", "s", "i",
         "d", "e", "n", "t" >>,
    signed_by_president |->
      \* signed by president
      << "s", "i", "g", "n", "e", "d", " ", "b", "y", " ", "p", "r", "e", "s", "i", "d", "e", "n",
         "t" >>,
    pocket_vetoed |->
      \* pocket vetoed by president
      << "p", "o", "c", "k", "e", "t", " ", "v", "e", "t", "o", "e", "d", " ", "b", "y", " ", "p",
         "r", "e", "s", "i", "d", "e", "n", "t" >>,
    vetoed |->
      \* vetoed by president
      << "v", "e", "t", "o", "e", "d", " ", "b", "y", " ", "p", "r", "e", "s", "i", "d", "e", "n",
         "t" >>,
    sent_to_archivist |->
      \* Sent to Archivist of the United States unsigned
      << "S", "e", "n", "t", " ", "t", "o", " ", "A", "r", "c", "h", "i", "v", "i", "s", "t", " ",
         "o", "f", " ", "t", "h", "e", " ", "U", "n", "i", "t", "e", "d", " ", "S", "t",
         "a", "t", "e", "s", " ", "u", "n", "s", "i", "g", "n", "e", "d" >>,
    referred_to |->
      \* referred to 
      << "r", "e", "f", "e", "r", "r", "e", "d", " ", "t", "o", " " >>,
    h_amdt |->
      \* h.amdt.
      << "h", ".", "a", "m", "d", "t", "." >>,
    s_amdt |->
      \* s.amdt.
      << "s", ".", "a", "m", "d", "t", "." >>,
    sponsor_remarks_quoted |->
      \* "sponsor introductory remarks"
      << "\"", "s", "p", "o", "n", "s", "o", "r", " ", "i", "n", "t", "r", "o", "d", "u", "c",
         "t", "o", "r", "y", " ", "r", "e", "m", "a", "r", "k", "s", "\"" >> ]

\* the House vote expression (built in matchString, flag i) on
\* text.replace(", the Passed", ", Passed"): groups 1 to 5, and group 2 of
\* /\((Roll no\.|Record Vote No:) (\d+)\)/i on group 5
HouseVoteMatch(text) ==
  CASE text = T.hpass ->
         [ matched |-> TRUE, motion |-> SubSeq(text, 1, 10), is_override |-> undefined,
           as_amended |-> undefined, pass_fail |-> "Passed",
           how |-> "by voice vote",
           roll |-> undefined ]
    [] text = T.loc_hpass ->
         [ matched |-> TRUE, motion |-> SubSeq(text, 28, 37), is_override |-> undefined,
           as_amended |-> undefined, pass_fail |-> "Passed",
           how |-> "by voice vote",
           roll |-> undefined ]
    [] text = T.hfail_susp ->
         [ matched |-> TRUE, motion |-> SubSeq(text, 1, 48), is_override |-> undefined,
           as_amended |-> undefined, pass_fail |-> "Failed",
           how |-> "by the Yeas and Nays: (2/3 required): 200 - 210 (Roll no. 12)",
           roll |-> "12" ]
    [] text = T.hres_agreed ->
         [ matched |-> TRUE, motion |-> SubSeq(text, 1, 29), is_override |-> undefined,
           as_amended |-> undefined, pass_fail |-> "Agreed to",
           how |-> "without objection",
           roll |-> undefined ]
    [] text = T.hconf ->
         [ matched |-> TRUE, motion |-> SubSeq(text, 1, 36), is_override |-> undefined,
           as_amended |-> undefined, pass_fail |-> "Agreed to",
           how |-> "by the Yeas and Nays: 300 - 100 (Roll no. 15)",
           roll |-> "15" ]
    [] text = T.hoverride ->
         [ matched |-> TRUE, motion |-> SubSeq(text, 1, 10), is_override |-> ", the objections of the President to the contrary notwithstanding",
           as_amended |-> undefined, pass_fail |-> "Passed",
           how |-> "by the Yeas and Nays: (2/3 required): 300 - 100 (Roll no. 13)",
           roll |-> "13" ]
    [] OTHER ->
         [ matched |-> FALSE, motion |-> << >>, is_override |-> undefined,
           as_amended |-> undefined, pass_fail |-> undefined, how |-> undefined,
           roll |-> undefined ]

\* /Pursuant to the provisions of [HSCONJRES\. ]+ \d+, [HSCONJRES\. ]+ \d+ is
\* considered passed House/i, the third alternative of the special-rule expression
ConsideredPassedHouseMatch(text) ==
  \* no catalog text matches
  FALSE

\* the motion-to-table expression (flag i): group 1, and the roll number in it
TableMotionMatch(text) ==
  CASE text = T.htable ->
         [ matched |-> TRUE, how |-> "by voice vote", roll |-> undefined ]
    [] OTHER ->
         [ matched |-> FALSE, how |-> undefined, roll |-> undefined ]

\* the Senate vote expression on text.replace("  ", " "), matched without
\* flags (text.match is given the string, not the RegExp built with flag i):
\* groups 1 to 3, and group 2 of /Record Vote (No|Number): (\d+)/i on group 3
SenateVoteMatch(text) ==
  CASE text = T.spass ->
         [ matched |-> TRUE, motion |-> SubSeq(text, 1, 13), extra |-> SubSeq(text, 14, 31),
           how |-> "by Unanimous Consent",
           roll |-> undefined ]
    [] text = T.spass_amended ->
         [ matched |-> TRUE, motion |-> SubSeq(text, 1, 13), extra |-> SubSeq(text, 14, 31),
           how |-> "by Voice Vote",
           roll |-> undefined ]
    [] text = T.sres_agreed ->
         [ matched |-> TRUE, motion |-> SubSeq(text, 1, 30), extra |-> SubSeq(text, 31, 48),
           how |-> "by Unanimous Consent",
           roll |-> undefined ]
    [] text = T.sconf ->
         [ matched |-> TRUE, motion |-> SubSeq(text, 1, 34), extra |-> SubSeq(text, 35, 34),
           how |-> "by Unanimous Consent",
           roll |-> undefined ]
    [] text = T.soverride ->
         [ matched |-> TRUE, motion |-> SubSeq(text, 1, 13), extra |-> SubSeq(text, 14, 26),
           how |-> "Yea-Nay Vote. 70 - 30. Record Vote Number: 14",
           roll |-> "14" ]
    [] text = T.cloture_failed ->
         [ matched |-> TRUE, motion |-> SubSeq(text, 1, 66), extra |-> SubSeq(text, 67, 69),
           how |-> "Yea-Nay Vote. 50 - 48. Record Vote Number: 16",
           roll |-> "16" ]
    [] OTHER ->
         [ matched |-> FALSE, motion |-> << >>, extra |-> << >>, how |-> undefined,
           roll |-> undefined ]

\* /Placed on (the )?([\w ]+) Calendar( under ([\w ]+))?[,\.] Calendar No\. (\d+)\./i,
\* the first alternative of the calendar expression
PlacedOnCalendarMatch(text) ==
  CASE text = T.calendar ->
         TRUE
    [] OTHER ->
         FALSE

\* /Committee on (.*)\. Reported by/i: group 1
ReportedMatch(text) ==
  CASE text = T.reported ->
         [ matched |-> TRUE, committee |-> "the Judiciary" ]
    [] text = T.referred_reported ->
         [ matched |-> TRUE, committee |-> "Finance" ]
    [] OTHER ->
         [ matched |-> FALSE, committee |-> undefined ]

\* /Reported to Senate from the (.*?)( \(without written report\))?\./i: group 1
ReportedToSenateMatch(text) ==
  \* no catalog text matches
  [ matched |-> FALSE, committee |-> undefined ]

\* /(Committee on .*?)\. Hearings held/i: group 1
HearingsMatch(text) ==
  CASE text = T.hearings ->
         [ matched |-> TRUE, committee |-> "Committee on Finance" ]
    [] OTHER ->
         [ matched |-> FALSE, committee |-> undefined ]

\* /Committee on (.*)\. Discharged (by Unanimous Consent)?/i: group 1
DischargedMatch(text) ==
  CASE text = T.discharged ->
         [ matched |-> TRUE, committee |-> "Finance" ]
    [] text = T.referred_discharged ->
         [ matched |-> TRUE, committee |-> "Finance" ]
    [] OTHER ->
         [ matched |-> FALSE, committee |-> undefined ]

\* /^(?:Became )?(Public|Private) Law(?: No:)? ([\d\-]+)\./i: group 1 in lower
\* case, and the first two pieces of group 2 split at "-"
LawMatch(text) ==
  CASE text = T.law ->
         [ matched |-> TRUE, law |-> "public", congress |-> "116",
           number |-> "123" ]
    [] text = T.private_law ->
         [ matched |-> TRUE, law |-> "private", congress |-> "116",
           number |-> "1" ]
    [] OTHER ->
         [ matched |-> FALSE, law |-> undefined, congress |-> undefined,
           number |-> undefined ]


\* end of the catalog

\* ------------------------------------------------------------------------
\* Action classifier: parse_bill_action
\* ------------------------------------------------------------------------

UpperCase ==
  << "A", "B", "C", "D", "E", "F", "G", "H", "I", "J", "K", "L", "M",
     "N", "O", "P", "Q", "R", "S", "T", "U", "V", "W", "X", "Y", "Z" >>

LowerCase ==
  << "a", "b", "c", "d", "e", "f", "g", "h", "i", "j", "k", "l", "m",
     "n", "o", "p", "q", "r", "s", "t", "u", "v", "w", "x", "y", "z" >>

\* case folding of flag i, as a table over the letters
LowerOf ==
  [ c \in { UpperCase[i] : i \in DOMAIN UpperCase } |->
      LowerCase[CHOOSE i \in DOMAIN UpperCase : UpperCase[i] = c] ]

Lower(c) ==
  IF c \in DOMAIN LowerOf THEN LowerOf[c] ELSE c

LowerText(t) ==
  [ j \in 1..Len(t) |-> Lower(t[j]) ]

IsDigit(c) ==
  c \in {"0", "1", "2", "3", "4", "5", "6", "7", "8", "9"}

\* /literal/.test(t)
Contains(t, p) ==
  \E i \in 1..(Len(t) - Len(p) + 1) : \A j \in 1..Len(p) : t[i + j - 1] = p[j]

\* /literal/i.test(t), p in lower case
ContainsCI(t, p) ==
  Contains(LowerText(t), p)

\* /^H\.Amdt\.(\d+)/i.test(text): House amendments only
HouseAmendmentMatch(text) ==
  /\ Len(text) >= Len(L.h_amdt) + 1
  /\ [j \in 1..Len(L.h_amdt) |-> Lower(text[j])] = L.h_amdt
  /\ IsDigit(text[Len(L.h_amdt) + 1])

\* /^(H|S)\.Amdt\.(\d+)/i.test(text)
AmendmentMatch(text) ==
  /\ Len(text) >= Len(L.h_amdt) + 1
  /\ LET head == [j \in 1..Len(L.h_amdt) |-> Lower(text[j])]
     IN head = L.h_amdt \/ head = L.s_amdt
  /\ IsDigit(text[Len(L.h_amdt) + 1])

\* prev_status.startsWith("VETOED:") over Statuses and ""
StartsWithVetoed(prev_status) ==
  prev_status \in { "VETOED:POCKET",
                    "VETOED:OVERRIDE_FAIL_ORIGINATING:HOUSE",
                    "VETOED:OVERRIDE_FAIL_ORIGINATING:SENATE",
                    "VETOED:OVERRIDE_FAIL_SECOND:HOUSE", "VETOED:OVERRIDE_FAIL_SECOND:SENATE",
                    "VETOED:OVERRIDE_PASS_OVER:HOUSE", "VETOED:OVERRIDE_PASS_OVER:SENATE" }

\* const action = { type: "action" }, with the properties the rules may add
\* (undefined while a property is not set)
NewAction ==
  [ type |-> "action", vote_type |-> undefined, how |-> undefined, where |-> undefined,
    result |-> undefined, suspension |-> undefined, roll |-> undefined,
    committee |-> undefined, pocket |-> undefined, law |-> undefined,
    congress |-> undefined, number |-> undefined ]

\* if (new_status) status = new_status
StatusOr(new_status, status) ==
  IF Truthy(new_status) THEN new_status ELSE status

\* rule 1: a House vote
HouseVoteRule(st, text, prev_status, bill_type, title) ==
  LET m == HouseVoteMatch(text)
      motion == m.motion
      pass_fail ==
        IF ContainsCI(motion, L.passed_house) \/ ContainsCI(motion, L.house_agreed_to)
          THEN "pass"
        ELSE IF ContainsCI(text, L.ayes_had_prevailed) \/ ContainsCI(text, L.yeas_had_prevailed)
          THEN "pass"
        ELSE IF m.pass_fail \in {"Passed", "Agreed to"}   \* /Pass|Agreed/i on group 4
          THEN "pass"
        ELSE "fail"
      is_override == IF ContainsCI(motion, L.two_thirds) THEN "true" ELSE m.is_override
      vote_type ==
        IF Truthy(is_override) THEN "override"
        ELSE IF \/ ContainsCI(text, L.agree_to_senate_amdt)
                \/ ContainsCI(text, L.agree_with_amdt_to_senate_amdt)
                \/ ContainsCI(text, L.concur_in_senate_amdt) THEN "pingpong"
        ELSE IF ContainsCI(text, L.conference_report) THEN "conference"
        ELSE IF bill_type = "hr" THEN "vote"
        ELSE "vote2"
      roll == m.roll
      how == IF Truthy(roll) THEN "roll" ELSE m.how
      suspension ==
        IF Truthy(roll) /\ ContainsCI(motion, L.suspend_the_rules) THEN "true" ELSE undefined
      as_amended ==
        IF ContainsCI(motion, L.house_agree_with_amdt) THEN "true" ELSE m.as_amended
      new_status == new_status_after_vote(vote_type, pass_fail = "pass", "h", bill_type,
                                          suspension, as_amended, title, prev_status)
  IN IF ~m.matched THEN st
     ELSE [ action |-> [st.action EXCEPT !.type = "vote", !.vote_type = vote_type,
                                          !.how = how, !.where = "h", !.result = pass_fail,
                                          !.suspension = suspension,
                                          !.roll = IF Truthy(roll) THEN roll ELSE @],
            status |-> StatusOr(new_status, st.status) ]

\* rule 2: passed House by special rule, not by a vote
HouseSpecialRule(st, text, prev_status, bill_type, title) ==
  LET m == \/ ContainsCI(text, L.passed_house_pursuant)
           \/ ContainsCI(text, L.house_agreed_pursuant)
           \/ ContainsCI(text, L.house_agreed_with_amdt_pursuant)
           \/ ConsideredPassedHouseMatch(text)
      vote_type ==
        IF ContainsCI(text, L.agreed_to_senate_amdt) THEN "pingpong"
        ELSE IF bill_type = "hr" THEN "vote"
        ELSE "vote2"
      as_amended ==
        IF ContainsCI(text, L.with_amendment) \/ Contains(text, L.as_amended)
          THEN "true" ELSE "false"
      new_status == new_status_after_vote(vote_type, TRUE, "h", bill_type, "false",
                                          as_amended, title, prev_status)
  IN IF ~m THEN st
     ELSE [ action |-> [st.action EXCEPT !.type = "vote", !.vote_type = vote_type,
                                          !.how = "by special rule", !.where = "h",
                                          !.result = "pass"],
            status |-> StatusOr(new_status, st.status) ]

\* rule 3: an agreed-to House motion to table the measure
TableMotionRule(st, text, prev_status, bill_type, title) ==
  LET m == TableMotionMatch(text)
      \* bill_id.startsWith("hres"): the bill type is the leading letters of bill_id
      vote_type == IF prev_status = "INTRODUCED" \/ bill_type = "hres" THEN "vote" ELSE "vote2"
      roll == m.roll
      how == IF Truthy(roll) THEN "roll" ELSE m.how
      new_status == new_status_after_vote(vote_type, FALSE, "h", bill_type, "false",
                                          "false", title, prev_status)
  IN IF ~m.matched THEN st
     ELSE [ action |-> [st.action EXCEPT !.type = "vote", !.vote_type = vote_type,
                                          !.how = how, !.where = "h", !.result = "fail",
                                          !.roll = IF Truthy(roll) THEN roll ELSE @],
            status |-> StatusOr(new_status, st.status) ]

\* rule 4: a Senate vote
SenateVoteRule(st, text, prev_status, bill_type, title) ==
  LET m == SenateVoteMatch(text)
      motion == m.motion
      extra == m.extra
      pass_fail ==
        IF ContainsCI(motion, L.disagreed) \/ ContainsCI(motion, L.not_invoked) THEN "fail"
        ELSE IF \/ ContainsCI(motion, L.passed) \/ ContainsCI(motion, L.agreed)
                \/ ContainsCI(motion, L.concurred) \/ ContainsCI(motion, L.invoked) THEN "pass"
        ELSE "fail"
      vote_type ==
        IF ContainsCI(extra, L.over_veto) THEN "override"
        ELSE IF ContainsCI(motion, L.conference_report) THEN "conference"
        ELSE IF ContainsCI(motion, L.cloture) THEN "cloture"
        ELSE IF \/ ContainsCI(motion, L.senate_agreed_house_amdt)
                \/ ContainsCI(motion, L.senate_agreed_the_house_amdt)
                \/ ContainsCI(motion, L.senate_concurred_house_amdt)
                \/ ContainsCI(motion, L.senate_concurred_the_house_amdt) THEN "pingpong"
        ELSE IF bill_type = "s" THEN "vote"
        ELSE "vote2"
      voteaction_type ==
        IF /\ ~ContainsCI(extra, L.over_veto)
           /\ ~ContainsCI(motion, L.conference_report)
           /\ ContainsCI(motion, L.cloture) THEN "vote-aux" ELSE "vote"
      roll == m.roll
      how == IF Truthy(roll) THEN "roll" ELSE m.how
      as_amended ==
        IF ContainsCI(extra, L.with_amendments) \/ ContainsCI(extra, L.with_an_amendment)
          THEN "true" ELSE "false"
      new_status == new_status_after_vote(vote_type, pass_fail = "pass", "s", bill_type,
                                          "false", as_amended, title, prev_status)
  IN IF ~m.matched THEN st
     ELSE [ action |-> [st.action EXCEPT !.type = voteaction_type, !.vote_type = vote_type,
                                          !.how = how, !.result = pass_fail, !.where = "s",
                                          !.roll = IF Truthy(roll) THEN roll ELSE @],
            status |-> StatusOr(new_status, st.status) ]

\* rule 5: placed on a calendar, suspension sought, or ordered to be reported
CalendarRule(st, text, prev_status) ==
  IF \/ PlacedOnCalendarMatch(text)
     \/ ContainsCI(text, L.seek_suspension)
     \/ ContainsCI(text, L.ordered_reported)
    THEN [ action |-> [st.action EXCEPT !.type = "calendar"],
           status |-> IF prev_status = "INTRODUCED" \/ prev_status = "REFERRED"
                        THEN "REPORTED" ELSE st.status ]
    ELSE st

\* rule 6: reported by a committee (both forms use the same assignments)
ReportedRule(st, m, prev_status) ==
  IF m.matched
    THEN [ action |-> [st.action EXCEPT !.type = "reported", !.committee = m.committee],
           status |-> IF prev_status = "INTRODUCED" \/ prev_status = "REFERRED"
                        THEN "REPORTED" ELSE st.status ]
    ELSE st

\* rule 7: hearings held by a committee
HearingsRule(st, text) ==
  IF HearingsMatch(text).matched
    THEN [st EXCEPT !.action = [@ EXCEPT !.committee = HearingsMatch(text).committee,
                                         !.type = "hearings"]]
    ELSE st

\* rule 9: sent to the President
ToPresidentRule(st, text) ==
  IF ContainsCI(text, L.cleared_white_house) \/ ContainsCI(text, L.presented_to_president)
    THEN [st EXCEPT !.action = [@ EXCEPT !.type = "topresident"]]
    ELSE st

\* rule 10: signed by the President
SignedRule(st, text) ==
  IF ContainsCI(text, L.signed_by_president)
    THEN [ action |-> [st.action EXCEPT !.type = "signed"], status |-> "ENACTED:SIGNED" ]
    ELSE st

\* rule 11: vetoed, by pocket veto or outright
VetoedRule(st, text) ==
  IF ContainsCI(text, L.pocket_vetoed)
    THEN [ action |-> [st.action EXCEPT !.type = "vetoed", !.pocket = "1"],
           status |-> "VETOED:POCKET" ]
  ELSE IF ContainsCI(text, L.vetoed)
    THEN [ action |-> [st.action EXCEPT !.type = "vetoed"], status |-> "PROV_KILL:VETO" ]
  ELSE st

\* rule 12: law without signature
TenDayRule(st, text) ==
  IF Contains(text, L.sent_to_archivist)
    THEN [st EXCEPT !.status = "ENACTED:TENDAYRULE"]
    ELSE st

\* the law rule without the branch for a vetoed bill
EnactedRuleNoOverride(st, text, prev_status) ==
  LET m == LawMatch(text)
  IN IF m.matched
       THEN [ action |-> [st.action EXCEPT !.law = m.law, !.congress = m.congress,
                                            !.number = m.number, !.type = "enacted"],
              status |-> st.status ]
       ELSE st

\* rule 13: became public or private law
EnactedRule(st, text, prev_status) ==
  LET m == LawMatch(text)
  IN IF m.matched
       THEN [ action |-> [st.action EXCEPT !.law = m.law, !.congress = m.congress,
                                            !.number = m.number, !.type = "enacted"],
              status |-> IF prev_status \in {"ENACTED:SIGNED", "ENACTED:VETO_OVERRIDE",
                                             "ENACTED:TENDAYRULE"}
                           THEN st.status
                         ELSE IF prev_status = "PROV_KILL:VETO" \/ StartsWithVetoed(prev_status)
                           THEN "ENACTED:VETO_OVERRIDE"
                         ELSE st.status ]
       ELSE st

\* the referral rule without the test of the prior status
ReferralRuleUnguarded(st, text, prev_status) ==
  IF ContainsCI(text, L.referred_to)
    THEN [ action |-> [st.action EXCEPT !.type = "referral"], status |-> "REFERRED" ]
    ELSE st

\* rule 14: referral.  Everything after "Referred to " is optional in
\* /Referred to (?:the )?(House|Senate)?\s?(?:Committee|Subcommittee)?/i
ReferralRule(st, text, prev_status) ==
  IF ContainsCI(text, L.referred_to)
    THEN [ action |-> [st.action EXCEPT !.type = "referral"],
           status |-> IF prev_status = "INTRODUCED" THEN "REFERRED" ELSE st.status ]
    ELSE st

\* parse_bill_action(action_dict, prev_status = "", bill_id, title = ""), with
\* the bill type split_bill_id takes from bill_id.  ret is "empty" for the
\* early return { }, "TypeError" when m.group(1) of rule 8 (discharged) throws,
\* and "ok" for return { action, status }.
parse_bill_action(action_dict, prev_status_arg, bill_type, title) ==
  LET prev_status == IF prev_status_arg = undefined THEN "" ELSE prev_status_arg
      text == action_dict.text
      s0 == [ action |-> NewAction, status |-> undefined ]
      s1 == HouseVoteRule(s0, text, prev_status, bill_type, title)
      s2 == HouseSpecialRule(s1, text, prev_status, bill_type, title)
      s3 == TableMotionRule(s2, text, prev_status, bill_type, title)
      s4 == SenateVoteRule(s3, text, prev_status, bill_type, title)
      s5 == CalendarRule(s4, text, prev_status)
      s6a == ReportedRule(s5, ReportedMatch(text), prev_status)
      s6 == ReportedRule(s6a, ReportedToSenateMatch(text), prev_status)
      s7 == HearingsRule(s6, text)
      s9 == ToPresidentRule(s7, text)
      s10 == SignedRule(s9, text)
      s11 == VetoedRule(s10, text)
      s12 == TenDayRule(s11, text)
      s13 == EnactedRule(s12, text, prev_status)
      s14 == ReferralRule(s13, text, prev_status)
      Return(atRule8, atEnd) ==
        IF AmendmentMatch(text)
          THEN [ ret |-> "empty", action |-> NewAction, status |-> undefined ]
        ELSE IF DischargedMatch(text).matched
          THEN [ ret |-> "TypeError", action |-> atRule8.action, status |-> atRule8.status ]
        ELSE [ ret |-> "ok", action |-> atEnd.action, status |-> atEnd.status ]
  IN Return(s7, s14)

\* ------------------------------------------------------------------------
\* actions_for.build_dict and latest_status
\* ------------------------------------------------------------------------

\* an undefined timestamp (acted_at of a missing action)
NoTime ==
  [ date |-> undefined, time |-> undefined ]

\* a date string of the input that is passed through (introducedDate)
RawDate(d) ==
  [ date |-> d, time |-> undefined ]

\* obj[name] of a record: undefined for a property the object does not have
Prop(obj, name) ==
  IF name \in DOMAIN obj THEN obj[name] ELSE undefined

\* closure['prev_status'] inside build_dict.  Array.prototype.map calls
\* build_dict(item, index, array), so the parameter closure is the index, a
\* Number, which has no property prev_status.
IndexProp(index, name) ==
  undefined

\* the classified action: action_dict after Object.assign(action_dict,
\* extra_action_info); status is undefined until build_dict stamps one
Classified(action_dict, status, extra) ==
  [ acted_at |-> action_dict.acted_at, action_code |-> action_dict.action_code,
    text |-> action_dict.text, status |-> status,
    type |-> extra.type, vote_type |-> extra.vote_type, how |-> extra.how,
    where |-> extra.where, result |-> extra.result, suspension |-> extra.suspension,
    roll |-> extra.roll, committee |-> extra.committee, pocket |-> extra.pocket,
    law |-> extra.law, congress |-> extra.congress, number |-> extra.number ]

\* build_dict(item, index): ret is "ok" with the classified action, or the
\* error thrown.  handed is the prev_status argument given to parse_bill_action.
\* The destructuring reads the properties action and stauts of the result.
build_dict(item, index, bill_type, title) ==
  LET handed == IndexProp(index, "prev_status")
      Stamp(action_dict, parsed) ==
        LET result == IF parsed.ret = "empty"
                        THEN [ x \in {} |-> undefined ]
                        ELSE [ action |-> parsed.action, status |-> parsed.status ]
            new_status == Prop(result, "stauts")
            \* Object.assign is skipped for an undefined extra_action_info:
            \* action_dict keeps type "action" of action_for
            extra == IF "action" \in DOMAIN result THEN result.action ELSE NewAction
        IN IF parsed.ret = "TypeError"
             THEN [ ret |-> "TypeError", handed |-> handed, action |-> << >> ]
           ELSE IF Truthy(new_status)
             \* closure['prev_status'] = new_status on a Number throws in strict mode
             THEN [ ret |-> "TypeError", handed |-> handed, action |-> << >> ]
           ELSE [ ret |-> "ok", handed |-> handed,
                  action |-> <<Classified(action_dict, undefined, extra)>> ]
  IN IF action_for_throws(item)
       THEN [ ret |-> "RangeError", handed |-> undefined, action |-> << >> ]
       ELSE Stamp(action_for(item),
                  parse_bill_action(action_for(item), handed, bill_type, title))

\* latest_status(actions, introduced_at): actions.pop() takes the last action
\* off the array it is given
latest_status(actions, introduced_at) ==
  IF actions = << >>
    THEN [ status |-> "INTRODUCED", status_date |-> RawDate(introduced_at),
           actions |-> actions ]
    ELSE [ status |-> actions[Len(actions)].status,
           status_date |-> actions[Len(actions)].acted_at,
           actions |-> SubSeq(actions, 1, Len(actions) - 1) ]

\* ------------------------------------------------------------------------
\* History summarizer: activation_from and history_from_actions
\* ------------------------------------------------------------------------

\* the first action taken for the activating one, whatever its type
activation_from_first(actions) ==
  IF actions = << >> THEN [ truthy |-> TRUE, acted_at |-> NoTime ]
  ELSE [ truthy |-> TRUE, acted_at |-> actions[1].acted_at ]

\* activation_from(actions): truthy tells whether the returned value is truthy
\* ([] for no actions, the activating action, or undefined), acted_at is its
\* acted_at property
activation_from(actions) ==
  IF actions = << >> THEN [ truthy |-> TRUE, acted_at |-> NoTime ]
  ELSE IF actions[1].type \in {"referral", "calendar", "action"}
    THEN LET later == { j \in 2..Len(actions) :
                          /\ actions[j].type # "referral"
                          /\ actions[j].type # "calendar"
                          /\ ~ContainsCI(actions[j].text, L.sponsor_remarks_quoted) }
         IN IF later = {} THEN [ truthy |-> FALSE, acted_at |-> NoTime ]
            ELSE LET j == CHOOSE x \in later : \A y \in later : x <= y
                 IN [ truthy |-> TRUE, acted_at |-> actions[j].acted_at ]
  ELSE [ truthy |-> TRUE, acted_at |-> actions[1].acted_at ]

\* actions.filter(test).shift() in place of pop(): the first action passing
\* the test
FirstWhere(actions, hits) ==
  IF hits = {} THEN [ found |-> FALSE, result |-> undefined, acted_at |-> NoTime ]
  ELSE LET j == CHOOSE x \in hits : \A y \in hits : x <= y
       IN [ found |-> TRUE, result |-> actions[j].result, acted_at |-> actions[j].acted_at ]

\* actions.filter(test).pop(), with hits the positions of the actions passing
\* the test: the last of them; found is FALSE when there is none
LastWhere(actions, hits) ==
  IF hits = {} THEN [ found |-> FALSE, result |-> undefined, acted_at |-> NoTime ]
  ELSE LET j == CHOOSE x \in hits : \A y \in hits : y <= x
       IN [ found |-> TRUE, result |-> actions[j].result, acted_at |-> actions[j].acted_at ]

\* the test of awaiting_signature without !history['enacted']
AwaitingSignatureDespiteEnacted(topresident, vetoed, enacted) ==
  topresident /\ ~vetoed

\* topresident && (!history['vetoed']) && (!history['enacted'])
AwaitingSignature(topresident, vetoed, enacted) ==
  topresident /\ ~vetoed /\ ~enacted

history_from_actions(actions) ==
  LET activation == activation_from(actions)
      Where(type, where, override) ==
        { j \in 1..Len(actions) :
            /\ actions[j].type = type
            /\ actions[j].where = where
            /\ (actions[j].vote_type = "override") = override }
      house_vote == LastWhere(actions, Where("vote", "h", FALSE))
      senate_vote == LastWhere(actions, Where("vote", "s", FALSE))
      cloture_vote ==
        LastWhere(actions, { j \in Where("vote-aux", "s", FALSE) :
                               actions[j].vote_type = "cloture" })
      vetoed == LastWhere(actions, { j \in 1..Len(actions) : actions[j].type = "vetoed" })
      house_override_vote == LastWhere(actions, Where("vote", "h", TRUE))
      senate_override_vote == LastWhere(actions, Where("vote", "s", TRUE))
      enacted == LastWhere(actions, { j \in 1..Len(actions) : actions[j].type = "enacted" })
      topresident ==
        LastWhere(actions, { j \in 1..Len(actions) : actions[j].type = "topresident" })
      awaiting == AwaitingSignature(topresident.found, vetoed.found, enacted.found)
  IN [ active |-> activation.truthy,
       active_at |-> IF activation.truthy THEN activation.acted_at ELSE NoTime,
       house_passage_result |-> house_vote.result,
       house_passage_result_at |-> house_vote.acted_at,
       senate_passage_result |-> senate_vote.result,
       senate_passage_result_at |-> senate_vote.acted_at,
       senate_cloture_result |-> cloture_vote.result,
       senate_cloture_result_at |-> cloture_vote.acted_at,
       vetoed |-> vetoed.found,
       vetoed_at |-> vetoed.acted_at,
       house_override_result |-> house_override_vote.result,
       house_override_result_at |-> house_override_vote.acted_at,
       senate_override_result |-> senate_override_vote.result,
       senate_override_result_at |-> senate_override_vote.acted_at,
       enacted |-> enacted.found,
       enacted_at |-> enacted.acted_at,
       awaiting_signature |-> awaiting,
       awaiting_signature_since |-> IF awaiting THEN topresident.acted_at ELSE NoTime ]

\* ------------------------------------------------------------------------
\* State
\* ------------------------------------------------------------------------

VARIABLES
  pc,       \* position of the running computation
  bill,     \* the input of transformGovInfoBill: bill type, official title,
            \* introducedDate and the raw actions in source (newest-first) order
  k,        \* index of the array element the running filter or map is at
  prev,     \* closure['prev'] of keep_action: << >> while unset, else <<item>>
  keptIdx,  \* source positions of the raw actions filter has kept so far
  actions,  \* the classified actions build_dict has returned so far
  handed,   \* the prev_status argument of each parse_bill_action call so far
  latest,   \* what latest_status returned
  rec,      \* the bill record transformGovInfoBill returns
  err,      \* the error thrown, if any
  vin,      \* arguments of one call of new_status_after_vote
  vout,     \* what that call returned
  call,     \* one call of another pure function: its name and arguments
  result,   \* what that call returned or threw
  batch,    \* a run of the handler: the S3 records of the event, the position
            \* of its loop, the objects stored so far and the response
  earlier,  \* << >> during the first transformation of a document, then the
            \* outcome of that first transformation
  remote,   \* the sitemaps www.govinfo.gov serves: the sitemap index of the
            \* congress and the sitemap of one bill type
  bucket,   \* the copies of those two sitemaps stored in PC_BUCKET
  queues,   \* the messages waiting in the bill-type update queue and those the
            \* bill update queue has accepted
  run       \* the invocation of fetchBills or processBillTypeUpdate under way
            \* or just ended

vars ==
  <<pc, bill, k, prev, keptIdx, actions, handed, latest, rec, err, vin, vout, call, result,
    batch, earlier, remote, bucket, queues, run>>

\* ------------------------------------------------------------------------
\* transformGovInfoBill, step by step
\* ------------------------------------------------------------------------

\* actions_for up to the first array callback: an empty action list returns []
Start ==
  /\ pc = "start"
  /\ pc' = IF bill.items = << >> THEN "latest" ELSE "filter"
  /\ UNCHANGED <<bill, k, prev, keptIdx, actions, handed, latest, rec, err, vin, vout>>
  /\ UNCHANGED <<call, result, batch, earlier, remote, bucket, queues, run>>

\* one call of keep_action by actions.filter
KeepAction ==
  /\ pc = "filter"
  /\ LET item == bill.items[k]
         keep == keep_action(item, prev)
         n == Len(keptIdx) + (IF keep = "true" THEN 1 ELSE 0)
     IN IF keep \in {"TypeError", "RangeError"}
          THEN /\ pc' = "error"
               /\ err' = keep
               /\ UNCHANGED <<k, prev, keptIdx>>
          ELSE /\ keptIdx' = IF keep = "true" THEN Append(keptIdx, k) ELSE keptIdx
               /\ prev' = prev_after(item, prev)
               /\ k' = IF k < Len(bill.items) THEN k + 1 ELSE 1
               /\ pc' = IF k < Len(bill.items) THEN "filter"
                        ELSE IF n = 0 THEN "latest" ELSE "map"
               /\ UNCHANGED err
  /\ UNCHANGED <<bill, actions, handed, latest, rec, vin, vout>>
  /\ UNCHANGED <<call, result, batch, earlier, remote, bucket, queues, run>>

\* the raw action map hands to its k-th call of build_dict: the kept actions
\* reversed
Reversed(j) ==
  bill.items[keptIdx[Len(keptIdx) + 1 - j]]

\* one call of build_dict by .reverse().map
BuildDict ==
  /\ pc = "map"
  /\ LET Returned(built) ==
           IF built.ret # "ok"
             THEN /\ pc' = "error"
                  /\ err' = built.ret
                  /\ UNCHANGED <<k, actions, handed>>
             ELSE /\ actions' = actions \o built.action
                  /\ handed' = Append(handed, built.handed)
                  /\ k' = k + 1
                  /\ pc' = IF k < Len(keptIdx) THEN "map" ELSE "latest"
                  /\ UNCHANGED err
     IN Returned(build_dict(Reversed(k), k - 1, bill.bill_type, bill.title))
  /\ UNCHANGED <<bill, prev, keptIdx, latest, rec, vin, vout>>
  /\ UNCHANGED <<call, result, batch, earlier, remote, bucket, queues, run>>

\* const { status, status_date } = latest_status(actions, introducedDate)
LatestStatus ==
  /\ pc = "latest"
  /\ latest' = [ status |-> latest_status(actions, bill.introducedDate).status,
                 status_date |-> latest_status(actions, bill.introducedDate).status_date ]
  /\ actions' = latest_status(actions, bill.introducedDate).actions
  /\ pc' = "record"
  /\ UNCHANGED <<bill, k, prev, keptIdx, handed, rec, err, vin, vout>>
  /\ UNCHANGED <<call, result, batch, earlier, remote, bucket, queues, run>>

\* the bill_data literal and return
BuildRecord ==
  /\ pc = "record"
  /\ rec' = [ bill_type |-> bill.bill_type,
              introduced_at |-> bill.introducedDate,
              actions |-> actions,
              history |-> history_from_actions(actions),
              status |-> latest.status,
              status_at |-> latest.status_date ]
  /\ pc' = "done"
  /\ UNCHANGED <<bill, k, prev, keptIdx, actions, handed, latest, err, vin, vout>>
  /\ UNCHANGED <<call, result, batch, earlier, remote, bucket, queues, run>>

\* ------------------------------------------------------------------------
\* Inputs
\* ------------------------------------------------------------------------

\* all sequences over S of length at most n
SeqsUpTo(S, n) ==
  UNION { [1..m -> S] : m \in 0..n }

\* a raw action after transformNode; sourceSystem stands for
\* item['sourceSystem']['code'], undefined when the item has no sourceSystem
RawItem(text, actionDate, actionTime, code) ==
  [ actionDate |-> actionDate, actionTime |-> actionTime, actionCode |-> undefined,
    sourceSystem |-> code, text |-> text ]

\* "To amend x."
PlainTitle ==
  << "T", "o", " ", "a", "m", "e", "n", "d", " ", "x", "." >>

NoBill ==
  [ bill_type |-> "hr", title |-> << >>, introducedDate |-> "2020-01-01", items |-> << >> ]

NoLatest ==
  [ status |-> undefined, status_date |-> NoTime ]

\* no call of a pure function is under way
NoCall ==
  [ name |-> "none" ]

\* no run of the handler is under way
NoBatch ==
  [ Records |-> << >>, i |-> 1, at |-> "idle", stored |-> << >>, response |-> undefined ]

\* no invocation of fetchBills or processBillTypeUpdate is under way
NoRun ==
  [ handler |-> "none", at |-> "idle", n |-> 0, server |-> << >>, local |-> << >>,
    sitemap |-> << >>, keys |-> << >>, i |-> 0, sent |-> << >>, failed |-> << >>,
    missed |-> FALSE, before |-> << >>, response |-> undefined ]

\* the sitemap handlers play no part: nothing served, stored or queued
NoSitemaps ==
  /\ remote = [ index |-> << >>, bills |-> << >> ]
  /\ bucket = [ index |-> << >>, bills |-> << >> ]
  /\ queues = [ types |-> << >>, bills |-> << >> ]
  /\ run = NoRun

\* the state of a run of transformGovInfoBill on bill b before its first step
Begin(b) ==
  /\ pc = "start"
  /\ bill = b
  /\ k = 1
  /\ prev = << >>
  /\ keptIdx = << >>
  /\ actions = << >>
  /\ handed = << >>
  /\ latest = NoLatest
  /\ rec = << >>
  /\ err = undefined
  /\ vin = NoVote
  /\ vout = undefined
  /\ call = NoCall
  /\ result = undefined
  /\ batch = NoBatch
  /\ earlier = << >>
  /\ NoSitemaps

\* ------------------------------------------------------------------------
\* Spec: transformGovInfoBill on bills with catalog actions
\* ------------------------------------------------------------------------

\* the source system of a catalog text: 9 Library of Congress, 2 House
\* floor, 0 Senate
SourceOf(text) ==
  IF text = T.loc_hpass THEN "9"
  ELSE IF text \in {T.spass, T.reported} THEN "0"
  ELSE "2"

SpecTexts ==
  { << >>, T.introduced, T.referred, T.reported, T.hpass, T.loc_hpass, T.spass,
    T.reconsider }

SpecItems ==
  { RawItem(t, d, undefined, SourceOf(t)) : t \in SpecTexts, d \in ValidDates }

\* the actions of Scenario B of the spec, newest first
ScenarioB ==
  << RawItem(T.spass, "2020-01-02", undefined, "0"),
     RawItem(T.hpass, "2020-01-02", undefined, "2"),
     RawItem(T.reported, "2020-01-01", undefined, "0"),
     RawItem(T.referred, "2020-01-01", undefined, "2") >>

BillHeads ==
  { [ bill_type |-> "hr", title |-> PlainTitle ],
    [ bill_type |-> "sjres", title |-> ConstAmendTitle ] }

\* a bill: one of the heads with its raw actions
Bill(h, items) ==
  [ bill_type |-> h.bill_type, title |-> h.title, introducedDate |-> "2020-01-01",
    items |-> items ]

\* a bill signed into law, newest first
ScenarioLaw ==
  << RawItem(T.law, "2020-01-02", undefined, "9"),
     RawItem(T.signed, "2020-01-02", undefined, "9"),
     RawItem(T.topresident, "2020-01-01", "10:00:00", "2") >>

\* a bill whose only action has no actionDate
ScenarioNoDate ==
  << RawItem(T.referred, undefined, undefined, "2") >>

Scenarios ==
  {ScenarioB, ScenarioLaw, ScenarioNoDate}

Init ==
  \/ \E h \in BillHeads : \E items \in SeqsUpTo(SpecItems, MaxActions) : Begin(Bill(h, items))
  \/ \E h \in BillHeads : \E items \in Scenarios : Begin(Bill(h, items))

Next ==
  \/ Start
  \/ KeepAction
  \/ BuildDict
  \/ LatestStatus
  \/ BuildRecord

Spec ==
  Init /\ [][Next]_vars

\* ------------------------------------------------------------------------
\* SpecRerun: transformGovInfoBill invoked again in the same process, on the
\* same document or after the document of another bill
\* ------------------------------------------------------------------------

\* a closure that keeps the action the last invocation left in it
StaleClosure ==
  prev

\* var closure = { } of actions_for: every invocation has its own
FreshClosure ==
  << >>

\* a bill of one action the Library of Congress reports
OtherBill ==
  Bill([ bill_type |-> "hr", title |-> PlainTitle ],
       << RawItem(T.loc_hpass, "2020-01-01", undefined, "9") >>)

\* the invocation has ended, with this record or this error
Outcome ==
  [ bill |-> bill, ended |-> pc, rec |-> rec, err |-> err ]

\* the next invocation: the same document again, or once the document of
\* another bill and then the first one again; the locals of the function
\* are new ones, the module keeps no variable of its own between two
\* invocations
Rerun ==
  /\ pc \in {"done", "error"}
  /\ \/ /\ earlier = << >>
        /\ bill' \in {bill, OtherBill}
     \/ /\ Len(earlier) = 1
        /\ earlier[1].bill # bill
        /\ bill' = earlier[1].bill
  /\ earlier' = Append(earlier, Outcome)
  /\ pc' = "start"
  /\ k' = 1
  /\ prev' = FreshClosure
  /\ keptIdx' = << >>
  /\ actions' = << >>
  /\ handed' = << >>
  /\ latest' = NoLatest
  /\ rec' = << >>
  /\ err' = undefined
  /\ UNCHANGED <<vin, vout, call, result, batch, remote, bucket, queues, run>>

NextRerun ==
  \/ Next
  \/ Rerun

SpecRerun ==
  Init /\ [][NextRerun]_vars

\* ------------------------------------------------------------------------
\* SpecDedup: the filter of actions_for on short texts
\* ------------------------------------------------------------------------

\* "bc"
D_BC ==
  << "b", "c" >>

\* "a bc"
D_A_BC ==
  << "a", " ", "b", "c" >>

\* "a b c"
D_A_B_C ==
  << "a", " ", "b", " ", "c" >>

\* "r<a>bc"
D_LINK_BC ==
  << "r", "<", "a", ">", "b", "c" >>

DedupItems ==
  { RawItem(t, d, tm, c) :
      t \in {D_BC, D_A_B_C}, d \in ValidDates, tm \in {undefined} \cup ValidTimes,
      c \in {"9", "2"} }
  \cup { RawItem(<< >>, "2020-01-01", undefined, "9"),
         RawItem(D_A_BC, "2020-01-01", undefined, "9"),
         RawItem(D_LINK_BC, "2020-01-01", undefined, "9"),
         RawItem(D_BC, "2020-01-01", undefined, undefined),
         RawItem(D_BC, undefined, undefined, "9") }

\* "bc", then "a bc" that repeats it, then "bc" again; and "bc", an action
\* without text on another day, then "bc" again
DedupScenarios ==
  { << RawItem(D_BC, "2020-01-01", undefined, "9"),
       RawItem(D_A_BC, "2020-01-01", undefined, "9"),
       RawItem(D_BC, "2020-01-01", undefined, "9") >>,
    << RawItem(D_BC, "2020-01-01", undefined, "9"),
       RawItem(<< >>, "2020-01-02", undefined, "9"),
       RawItem(D_BC, "2020-01-01", undefined, "9") >> }

InitDedup ==
  \E items \in SeqsUpTo(DedupItems, MaxDedup) \cup DedupScenarios :
    Begin([ bill_type |-> "hr", title |-> PlainTitle, introducedDate |-> "2020-01-01",
            items |-> items ])

NextDedup ==
  \/ Start
  \/ KeepAction

SpecDedup ==
  InitDedup /\ [][NextDedup]_vars

\* ------------------------------------------------------------------------
\* SpecVote: one call of new_status_after_vote on arbitrary arguments
\* ------------------------------------------------------------------------

VoteInputs ==
  [ vote_type : VoteTypes, passed : BOOLEAN, chamber : {"h", "s"}, bill_type : BillTypes,
    suspension : {undefined, "true", "false"},
    amended : {undefined, "true", "false", ", as amended"},
    title : VoteTitles, prev_status : Statuses \cup {""} ]

InitVote ==
  /\ pc = "vote"
  /\ vin \in VoteInputs
  /\ vout = undefined
  /\ bill = NoBill
  /\ k = 1
  /\ prev = << >>
  /\ keptIdx = << >>
  /\ actions = << >>
  /\ handed = << >>
  /\ latest = NoLatest
  /\ rec = << >>
  /\ err = undefined
  /\ call = NoCall
  /\ result = undefined
  /\ batch = NoBatch
  /\ earlier = << >>
  /\ NoSitemaps

CallNewStatusAfterVote ==
  /\ pc = "vote"
  /\ vout' = new_status_after_vote(vin.vote_type, vin.passed, vin.chamber, vin.bill_type,
                                   vin.suspension, vin.amended, vin.title, vin.prev_status)
  /\ pc' = "voted"
  /\ UNCHANGED <<bill, k, prev, keptIdx, actions, handed, latest, rec, err, vin>>
  /\ UNCHANGED <<call, result, batch, earlier, remote, bucket, queues, run>>

SpecVote ==
  InitVote /\ [][CallNewStatusAfterVote]_vars

\* ------------------------------------------------------------------------
\* SpecBatch: the handler on an event of several S3 records
\* ------------------------------------------------------------------------

\* longest list of S3 records of an event
MaxRecords ==
  3

\* the documents behind the S3 records: what fetchBill and
\* transformGovInfoBill do with each.  "good" transforms into a record,
\* "sitemap" is a key ending in sitemap.xml, "nobody" an object without Body,
\* "badid" a bill whose bill_id split_bill_id rejects, "badtitle" a bill with
\* an unknown title type, "nofield" a bill without billType
Documents ==
  {"good", "sitemap", "nobody", "badid", "badtitle", "nofield"}

\* isValidKey(key): key && !key.endsWith("sitemap.xml")
isValidKey(doc) ==
  doc # "sitemap"

\* the statusCode of what transformGovInfoBill throws on a document, "none"
\* when it returns a record: split_bill_id throws { statusCode: 404 },
\* titles_for { statusCode: 400 }, and billType.toLowerCase() of an undefined
\* billType a TypeError, which has no statusCode
TransformThrows(doc) ==
  CASE doc = "badid" -> "404"
    [] doc = "badtitle" -> "400"
    [] doc = "nofield" -> undefined
    [] OTHER -> "none"

\* the response of the catch block: statusCode: err.statusCode || 500
ErrorResponse(statusCode) ==
  IF Truthy(statusCode) THEN statusCode ELSE "500"

InitBatch ==
  /\ pc = "handler"
  /\ \E Records \in SeqsUpTo(Documents, MaxRecords) :
       batch = [ Records |-> Records, i |-> 1, at |-> "loop", stored |-> << >>,
                 response |-> undefined ]
  /\ bill = NoBill
  /\ k = 1
  /\ prev = << >>
  /\ keptIdx = << >>
  /\ actions = << >>
  /\ handed = << >>
  /\ latest = NoLatest
  /\ rec = << >>
  /\ err = undefined
  /\ vin = NoVote
  /\ vout = undefined
  /\ call = NoCall
  /\ result = undefined
  /\ earlier = << >>
  /\ NoSitemaps

\* a record whose key isValidKey rejects: the loop goes on to the next record
SkipRecord ==
  /\ pc = "handler" /\ batch.at = "loop" /\ batch.i <= Len(batch.Records)
  /\ ~isValidKey(batch.Records[batch.i])
  /\ batch' = [batch EXCEPT !.i = @ + 1]
  /\ UNCHANGED <<pc, bill, k, prev, keptIdx, actions, handed, latest, rec, err, vin, vout,
                 call, result, earlier, remote, bucket, queues, run>>

\* await fetchBill(bucketName, objectKey): throws { statusCode: 404 } without
\* a Body, and the throw leaves the loop for the catch block
FetchBill ==
  /\ pc = "handler" /\ batch.at = "loop" /\ batch.i <= Len(batch.Records)
  /\ isValidKey(batch.Records[batch.i])
  /\ batch' = IF batch.Records[batch.i] = "nobody"
                THEN [batch EXCEPT !.at = "responded", !.response = ErrorResponse("404")]
                ELSE [batch EXCEPT !.at = "fetched"]
  /\ UNCHANGED <<pc, bill, k, prev, keptIdx, actions, handed, latest, rec, err, vin, vout,
                 call, result, earlier, remote, bucket, queues, run>>

\* await transformGovInfoBill(govInfoBill): a throw leaves the loop for the
\* catch block
TransformBill ==
  /\ pc = "handler" /\ batch.at = "fetched"
  /\ batch' = IF TransformThrows(batch.Records[batch.i]) = "none"
                THEN [batch EXCEPT !.at = "transformed"]
                ELSE [batch EXCEPT !.at = "responded",
                                   !.response =
                                     ErrorResponse(TransformThrows(batch.Records[batch.i]))]
  /\ UNCHANGED <<pc, bill, k, prev, keptIdx, actions, handed, latest, rec, err, vin, vout,
                 call, result, earlier, remote, bucket, queues, run>>

\* await createBillJSON(bucketName, billJSON), then the next record
CreateBillJSON ==
  /\ pc = "handler" /\ batch.at = "transformed"
  /\ batch' = [batch EXCEPT !.stored = Append(@, batch.i), !.i = @ + 1, !.at = "loop"]
  /\ UNCHANGED <<pc, bill, k, prev, keptIdx, actions, handed, latest, rec, err, vin, vout,
                 call, result, earlier, remote, bucket, queues, run>>

\* the loop is over: return { statusCode: 200, ... }
Respond ==
  /\ pc = "handler" /\ batch.at = "loop" /\ batch.i > Len(batch.Records)
  /\ batch' = [batch EXCEPT !.at = "responded", !.response = "200"]
  /\ UNCHANGED <<pc, bill, k, prev, keptIdx, actions, handed, latest, rec, err, vin, vout,
                 call, result, earlier, remote, bucket, queues, run>>

NextBatch ==
  \/ SkipRecord
  \/ FetchBill
  \/ TransformBill
  \/ CreateBillJSON
  \/ Respond

SpecBatch ==
  InitBatch /\ [][NextBatch]_vars

\* ------------------------------------------------------------------------
\* SpecHistory: one call of history_from_actions on a list of classified
\* actions
\* ------------------------------------------------------------------------

\* longest list of classified actions drawn for the history
MaxHistory ==
  3

\* the texts of the actions the history is drawn from
HistoryTexts ==
  { T.referred, T.calendar, T.remarks, T.introduced, T.hpass, T.spass, T.hoverride,
    T.soverride, T.cloture_failed, T.vetoed, T.law, T.topresident }

\* what parse_bill_action adds to an action of an hr bill with each text
ExtraOf ==
  [ t \in HistoryTexts |->
      parse_bill_action([ text |-> t ], undefined, "hr", PlainTitle).action ]

\* the dates of the actions of a list, by position
Stamps ==
  << "2020-01-01", "2020-01-02", "2020-01-03", "2020-01-04", "2020-01-05" >>

\* the classified actions of a bill with these action texts, oldest first,
\* one a day
ClassifiedList(texts) ==
  [ j \in 1..Len(texts) |->
      Classified([ acted_at |-> ToISOString(Stamps[j], undefined), action_code |-> undefined,
                   text |-> texts[j] ], undefined, ExtraOf[texts[j]]) ]

\* referral, calendar, introductory remarks, then a vote
ScenarioRemarks ==
  << T.referred, T.calendar, T.remarks, T.hpass >>

InitHistory ==
  /\ pc = "call"
  /\ \E texts \in SeqsUpTo(HistoryTexts, MaxHistory) \cup {ScenarioRemarks} :
       call = [ name |-> "history_from_actions", actions |-> ClassifiedList(texts) ]
  /\ result = undefined
  /\ bill = NoBill
  /\ k = 1
  /\ prev = << >>
  /\ keptIdx = << >>
  /\ actions = << >>
  /\ handed = << >>
  /\ latest = NoLatest
  /\ rec = << >>
  /\ err = undefined
  /\ vin = NoVote
  /\ vout = undefined
  /\ batch = NoBatch
  /\ earlier = << >>
  /\ NoSitemaps

CallHistoryFromActions ==
  /\ pc = "call" /\ call.name = "history_from_actions"
  /\ result' = history_from_actions(call.actions)
  /\ pc' = "returned"
  /\ UNCHANGED <<bill, k, prev, keptIdx, actions, handed, latest, rec, err, vin, vout, call,
                 batch, earlier, remote, bucket, queues, run>>

NextHistory ==
  CallHistoryFromActions

SpecHistory ==
  InitHistory /\ [][NextHistory]_vars

\* ------------------------------------------------------------------------
\* SpecTitle: one call of titles_for on the titles of a bill
\* ------------------------------------------------------------------------

\* the index of the first occurrence of p in t, 0 when there is none
IndexOf(t, p) ==
  IF Contains(t, p)
    THEN CHOOSE i \in 1..(Len(t) - Len(p) + 1) :
           /\ SubSeq(t, i, i + Len(p) - 1) = p
           /\ \A q \in 1..(i - 1) : SubSeq(t, q, q + Len(p) - 1) # p
    ELSE 0

\* String.prototype.split with a string separator
RECURSIVE Split(_, _)
Split(t, sep) ==
  LET i == IndexOf(t, sep)
  IN IF i = 0 THEN << t >>
     ELSE << SubSeq(t, 1, i - 1) >> \o Split(SubSeq(t, i + Len(sep), Len(t)), sep)

\* String.prototype.replace(p, "") with a string pattern: the first
\* occurrence only
RemoveFirst(t, p) ==
  LET i == IndexOf(t, p)
  IN IF i = 0 THEN t ELSE SubSeq(t, 1, i - 1) \o SubSeq(t, i + Len(p), Len(t))

\* the words titles_for looks for in a label
W ==
  [ as |->
      << " ", "a", "s", " " >>,
    on |->
      << " ", "o", "n", " " >>,
    portions |->
      << " ", "f", "o", "r", " ", "p", "o", "r", "t", "i", "o", "n", "s", " ", "o", "f", " ",
         "t", "h", "i", "s", " ", "b", "i", "l", "l" >>,
    popular |->
      << "P", "o", "p", "u", "l", "a", "r", " ", "T", "i", "t", "l", "e" >>,
    short |->
      << "S", "h", "o", "r", "t", " ", "T", "i", "t", "l", "e" >>,
    official |->
      << "O", "f", "f", "i", "c", "i", "a", "l", " ", "T", "i", "t", "l", "e" >>,
    display |->
      << "D", "i", "s", "p", "l", "a", "y", " ", "T", "i", "t", "l", "e" >>,
    nonbill |->
      << "N", "o", "n", "-", "b", "i", "l", "l", "-", "r", "e", "p", "o", "r", "t" >> ]

\* state with the qualifier for a portion left in place
KeepPortions(state) ==
  state

\* state.replace(" for portions of this bill", "")
StripPortions(state) ==
  RemoveFirst(state, W.portions)

\* the type of a title by its kind, undefined where the code throws
TitleTypeOf(title_type) ==
  CASE Contains(title_type, W.popular) -> "popular"
    [] Contains(title_type, W.short) -> "short"
    [] Contains(title_type, W.official) -> "official"
    [] Contains(title_type, W.display) -> "display"
    [] title_type = W.nonbill -> "nonbillreport"
    [] OTHER -> undefined

\* build_dict of titles_for; as is << >> when state stays undefined and
\* << state >> otherwise; type undefined stands for the throw of
\* { statusCode: 400 }
title_build_dict(item) ==
  LET full_type == item.titleType
      splits == IF Contains(full_type, W.as) THEN Split(full_type, W.as)
                ELSE Split(full_type, W.on)
      two == Len(splits) = 2
      title_type == IF two THEN splits[1] ELSE full_type
      portion == two /\ EndsWith(splits[2], W.portions)
      state == IF portion THEN StripPortions(splits[2]) ELSE splits[2]
  IN [ title |-> item.title,
       is_for_portion |-> portion,
       as |-> IF two THEN << LowerText(RemoveFirst(state, << ":" >>)) >> ELSE << >>,
       type |-> TitleTypeOf(title_type) ]

\* titles.map(build_dict): the first throw ends the call
titles_for(titles) ==
  LET dicts == [ j \in 1..Len(titles) |-> title_build_dict(titles[j]) ]
  IN IF \E j \in 1..Len(dicts) : dicts[j].type = undefined
       THEN [ threw |-> TRUE, statusCode |-> "400", titles |-> << >> ]
       ELSE [ threw |-> FALSE, statusCode |-> undefined, titles |-> dicts ]

\* the kinds of title labels, one of them unknown to the code
TitleKinds ==
  {
    << "S", "h", "o", "r", "t", " ", "T", "i", "t", "l", "e", "s" >>,
    << "S", "h", "o", "r", "t", " ", "T", "i", "t", "l", "e" >>,
    << "O", "f", "f", "i", "c", "i", "a", "l", " ", "T", "i", "t", "l", "e" >>,
    << "O", "f", "f", "i", "c", "i", "a", "l", " ", "T", "i", "t", "l", "e", "s" >>,
    << "P", "o", "p", "u", "l", "a", "r", " ", "T", "i", "t", "l", "e" >>,
    << "D", "i", "s", "p", "l", "a", "y", " ", "T", "i", "t", "l", "e" >>,
    << "N", "o", "n", "-", "b", "i", "l", "l", "-", "r", "e", "p", "o", "r", "t" >>,
    << "W", "o", "r", "k", "i", "n", "g", " ", "T", "i", "t", "l", "e" >> }

\* the qualifiers of title labels
TitleQualifiers ==
  {
    << "I", "n", "t", "r", "o", "d", "u", "c", "e", "d" >>,
    << "P", "a", "s", "s", "e", "d", " ", "H", "o", "u", "s", "e" >>,
    << "P", "a", "s", "s", "e", "d", " ", "S", "e", "n", "a", "t", "e" >>,
    << "E", "n", "a", "c", "t", "e", "d" >>,
    << "R", "e", "p", "o", "r", "t", "e", "d", " ", "t", "o", " ", "H", "o", "u", "s", "e" >>,
    << "C", "o", "n", "f", "e", "r", "e", "n", "c", "e", " ", "r", "e", "p", "o", "r", "t" >>,
    << "A", "m", "e", "n", "d", "e", "d", " ", "b", "y", " ", "S", "e", "n", "a", "t", "e" >>,
    << "A", "g", "r", "e", "e", "d", " ", "t", "o", " ", "b", "y", " ", "H", "o", "u", "s",
       "e", " ", "a", "n", "d", " ", "S", "e", "n", "a", "t", "e" >>,
    << "I", "n", "t", "r", "o", "d", "u", "c", "e", "d", ":" >> }

\* the labels: a kind alone, or a kind, " as " or " on ", a qualifier, and
\* possibly the words for a portion of the bill
TitleLabels ==
  TitleKinds
    \cup { kind \o sep \o qualifier \o rest :
             kind \in TitleKinds, sep \in {W.as, W.on}, qualifier \in TitleQualifiers,
             rest \in {<< >>, W.portions} }

TitleItem(titleType) ==
  [ titleType |-> titleType, title |-> PlainTitle ]

InitTitle ==
  /\ pc = "call"
  /\ \E titles \in {<< >>} \cup { << TitleItem(label) >> : label \in TitleLabels }
                   \cup { << TitleItem(label), TitleItem(W.official \o W.as \o qualifier) >> :
                            label \in TitleKinds, qualifier \in TitleQualifiers } :
       call = [ name |-> "titles_for", titles |-> titles ]
  /\ result = undefined
  /\ bill = NoBill
  /\ k = 1
  /\ prev = << >>
  /\ keptIdx = << >>
  /\ actions = << >>
  /\ handed = << >>
  /\ latest = NoLatest
  /\ rec = << >>
  /\ err = undefined
  /\ vin = NoVote
  /\ vout = undefined
  /\ batch = NoBatch
  /\ earlier = << >>
  /\ NoSitemaps

CallTitlesFor ==
  /\ pc = "call" /\ call.name = "titles_for"
  /\ result' = titles_for(call.titles)
  /\ pc' = "returned"
  /\ UNCHANGED <<bill, k, prev, keptIdx, actions, handed, latest, rec, err, vin, vout, call,
                 batch, earlier, remote, bucket, queues, run>>

NextTitle ==
  CallTitlesFor

SpecTitle ==
  InitTitle /\ [][NextTitle]_vars

\* ------------------------------------------------------------------------
\* SpecId: the bill id of one call of transformGovInfoBill, for a bill with
\* titles and actions the code accepts
\* ------------------------------------------------------------------------

IsLetter(c) ==
  \E i \in DOMAIN LowerCase : LowerCase[i] = c

\* `${bill_type}${bill_number}-${congress}`
build_bill_id(bill_type, bill_number, congress) ==
  bill_type \o bill_number \o << "-" >> \o congress

\* the ways /^([a-z]+)(\d+)-([^-]+)$/ matches bill_id: the pattern with any
\* text without a hyphen for a congress
LooseBillIdMatches(bill_id) ==
  { m \in (1..Len(bill_id)) \X (1..Len(bill_id)) :
      /\ m[1] + 1 < m[2] /\ m[2] < Len(bill_id)
      /\ \A i \in 1..m[1] : IsLetter(bill_id[i])
      /\ \A i \in (m[1] + 1)..(m[2] - 1) : IsDigit(bill_id[i])
      /\ bill_id[m[2]] = "-"
      /\ \A q \in (m[2] + 1)..Len(bill_id) : bill_id[q] # "-" }

\* the ways /^([a-z]+)(\d+)-(\d+)$/ matches bill_id: m[1] the last letter of
\* the bill type and m[2] the hyphen; the classes of the pattern share no
\* character, so there is one way at most
BillIdMatches(bill_id) ==
  { m \in (1..Len(bill_id)) \X (1..Len(bill_id)) :
      /\ m[1] + 1 < m[2] /\ m[2] < Len(bill_id)
      /\ \A i \in 1..m[1] : IsLetter(bill_id[i])
      /\ \A i \in (m[1] + 1)..(m[2] - 1) : IsDigit(bill_id[i])
      /\ bill_id[m[2]] = "-"
      /\ \A i \in (m[2] + 1)..Len(bill_id) : IsDigit(bill_id[i]) }

\* split_bill_id: groups[1] of null is a TypeError, caught and thrown again
\* as { statusCode: 404, message: "Invalid bill id: " + bill_id }
split_bill_id(bill_id) ==
  LET matches == BillIdMatches(bill_id)
  IN IF matches = {}
       THEN [ threw |-> TRUE, statusCode |-> "404", bill_type |-> << >>,
              bill_number |-> << >>, congress |-> << >> ]
       ELSE LET m == CHOOSE x \in matches : TRUE
            IN [ threw |-> FALSE, statusCode |-> undefined,
                 bill_type |-> SubSeq(bill_id, 1, m[1]),
                 bill_number |-> SubSeq(bill_id, m[1] + 1, m[2] - 1),
                 congress |-> SubSeq(bill_id, m[2] + 1, Len(bill_id)) ]

\* what transformGovInfoBill makes of billType, billNumber and congress:
\* the error of split_bill_id, thrown in parse_bill_action on the first
\* action or else in billstatus_url_for, or the fields of the record that
\* name the bill, the url with the parts split_bill_id returns
IdentityOf(doc) ==
  LET bill_id == build_bill_id(LowerText(doc.billType), doc.billNumber, doc.congress)
      parts == split_bill_id(bill_id)
  IN IF parts.threw
       THEN [ threw |-> TRUE, statusCode |-> parts.statusCode,
              thrown_in |-> IF doc.hasActions THEN "parse_bill_action"
                            ELSE "billstatus_url_for",
              bill_id |-> bill_id, bill_type |-> << >>, number |-> << >>,
              congress |-> << >>, url |-> << >> ]
       ELSE [ threw |-> FALSE, statusCode |-> undefined, thrown_in |-> "none",
              bill_id |-> bill_id, bill_type |-> LowerText(doc.billType),
              number |-> doc.billNumber, congress |-> doc.congress,
              url |-> << parts.congress, parts.bill_type, parts.bill_number >> ]

\* billType, billNumber and congress of the documents
Docs ==
  [ billType |-> {
        << "H", "R" >>,
        << "S" >>,
        << "h", "j", "r", "e", "s" >>,
        << "H" >>,
        << "h", "r", "1" >>,
        << >>,
        << "h", "-", "r" >>,
        << "s", "c", "o", "n", "r", "e", "s" >> },
    billNumber |-> {
        << "1" >>,
        << "1", "2" >>,
        << "r", "2" >>,
        << >>,
        << "1", "-", "2" >>,
        << "3", "5", "9", "0" >> },
    congress |-> {
        << "1", "1", "6" >>,
        << >>,
        << "1", "1", "a" >>,
        << "9" >> } ]

InitId ==
  /\ pc = "call"
  /\ \E billType \in Docs.billType, billNumber \in Docs.billNumber,
        congress \in Docs.congress,
        hasActions \in BOOLEAN :
       call = [ name |-> "transformGovInfoBill", billType |-> billType,
                billNumber |-> billNumber, congress |-> congress,
                hasActions |-> hasActions ]
  /\ result = undefined
  /\ bill = NoBill
  /\ k = 1
  /\ prev = << >>
  /\ keptIdx = << >>
  /\ actions = << >>
  /\ handed = << >>
  /\ latest = NoLatest
  /\ rec = << >>
  /\ err = undefined
  /\ vin = NoVote
  /\ vout = undefined
  /\ batch = NoBatch
  /\ earlier = << >>
  /\ NoSitemaps

IdentifyBill ==
  /\ pc = "call" /\ call.name = "transformGovInfoBill"
  /\ result' = IdentityOf(call)
  /\ pc' = "returned"
  /\ UNCHANGED <<bill, k, prev, keptIdx, actions, handed, latest, rec, err, vin, vout, call,
                 batch, earlier, remote, bucket, queues, run>>

NextId ==
  IdentifyBill

SpecId ==
  InitId /\ [][NextId]_vars

\* ------------------------------------------------------------------------
\* SpecParse: one call of parse_bill_action, and of build_dict on an action
\* with the same text
\* ------------------------------------------------------------------------

\* titles of the bills the actions are classified for
ParseTitles ==
  {PlainTitle, ConstAmendTitle}

InitParse ==
  /\ pc = "call"
  /\ \E text \in CatalogTexts, prev_status \in Statuses \cup {undefined},
        bill_type \in BillTypes, title \in ParseTitles :
       call = [ name |-> "parse_bill_action", text |-> text, prev_status |-> prev_status,
                bill_type |-> bill_type, title |-> title ]
  /\ result = undefined
  /\ bill = NoBill
  /\ k = 1
  /\ prev = << >>
  /\ keptIdx = << >>
  /\ actions = << >>
  /\ handed = << >>
  /\ latest = NoLatest
  /\ rec = << >>
  /\ err = undefined
  /\ vin = NoVote
  /\ vout = undefined
  /\ batch = NoBatch
  /\ earlier = << >>
  /\ NoSitemaps

\* parse_bill_action on the text, and build_dict as map calls it on the first
\* action of a bill
CallParseBillAction ==
  /\ pc = "call" /\ call.name = "parse_bill_action"
  /\ result' =
       [ parsed |-> parse_bill_action([ text |-> call.text ], call.prev_status,
                                      call.bill_type, call.title),
         built |-> build_dict(RawItem(call.text, "2020-01-01", undefined, "2"), 0,
                              call.bill_type, call.title) ]
  /\ pc' = "returned"
  /\ UNCHANGED <<bill, k, prev, keptIdx, actions, handed, latest, rec, err, vin, vout, call,
                 batch, earlier, remote, bucket, queues, run>>

SpecParse ==
  InitParse /\ [][CallParseBillAction]_vars

\* ------------------------------------------------------------------------
\* Claims about new_status_after_vote
\* ------------------------------------------------------------------------

HouseOrSenate(chamber) ==
  IF chamber = "h" THEN "HOUSE" ELSE "SENATE"

IsConstAmend(v) ==
  v.bill_type \in {"hjres", "sjres"} /\ StartsWith(v.title, ConstAmendPrefix)

\* the rows of the transition table of spec section 4.3 for vote, vote2,
\* pingpong and cloture, as sets of (arguments, status) pairs
TableRow(v, s) ==
  \/ /\ v.vote_type = "vote" /\ v.passed /\ v.bill_type \in {"hres", "sres"}
     /\ s = "PASSED:SIMPLERES"
  \/ /\ v.vote_type = "vote" /\ v.passed /\ v.bill_type \notin {"hres", "sres"}
     /\ s \in {"PASS_OVER:HOUSE", "PASS_OVER:SENATE"}
     /\ (s = "PASS_OVER:HOUSE") = (v.chamber = "h")
  \/ /\ v.vote_type = "vote" /\ ~v.passed /\ Truthy(v.suspension)
     /\ s = "PROV_KILL:SUSPENSIONFAILED"
  \/ /\ v.vote_type = "vote" /\ ~v.passed /\ ~Truthy(v.suspension)
     /\ s \in {"FAIL:ORIGINATING:HOUSE", "FAIL:ORIGINATING:SENATE"}
     /\ (s = "FAIL:ORIGINATING:HOUSE") = (v.chamber = "h")
  \/ /\ v.vote_type \in {"vote2", "pingpong"} /\ v.passed /\ Truthy(v.amended)
     /\ s \in {"PASS_BACK:HOUSE", "PASS_BACK:SENATE"}
     /\ (s = "PASS_BACK:HOUSE") = (v.chamber = "h")
  \/ /\ v.vote_type \in {"vote2", "pingpong"} /\ v.passed /\ ~Truthy(v.amended)
     /\ IsConstAmend(v)
     /\ s = "PASSED:CONSTAMEND"
  \/ /\ v.vote_type \in {"vote2", "pingpong"} /\ v.passed /\ ~Truthy(v.amended)
     /\ ~IsConstAmend(v) /\ v.bill_type \in {"hconres", "sconres"}
     /\ s = "PASSED:CONCURRENTRES"
  \/ /\ v.vote_type \in {"vote2", "pingpong"} /\ v.passed /\ ~Truthy(v.amended)
     /\ ~IsConstAmend(v) /\ v.bill_type \notin {"hconres", "sconres"}
     /\ s = "PASSED:BILL"
  \/ /\ v.vote_type = "pingpong" /\ ~v.passed
     /\ s = "PROV_KILL:PINGPONGFAIL"
  \/ /\ v.vote_type = "vote2" /\ ~v.passed /\ Truthy(v.suspension)
     /\ s = "PROV_KILL:SUSPENSIONFAILED"
  \/ /\ v.vote_type = "vote2" /\ ~v.passed /\ ~Truthy(v.suspension)
     /\ s \in {"FAIL:SECOND:HOUSE", "FAIL:SECOND:SENATE"}
     /\ (s = "FAIL:SECOND:HOUSE") = (v.chamber = "h")
  \/ /\ v.vote_type = "cloture" /\ ~v.passed
     /\ s = "PROV_KILL:CLOTUREFAILED"
  \/ /\ v.vote_type = "cloture" /\ v.passed
     /\ s = undefined

\* C3: for vote, vote2, pingpong and cloture and every combination of the
\* other arguments, new_status_after_vote returns exactly the status of the
\* matching row of the transition table (undefined where the table says the
\* status does not change).
C3_VoteTable ==
  (pc = "voted" /\ vin.vote_type \in {"vote", "vote2", "pingpong", "cloture"})
    => /\ TableRow(vin, vout)
       /\ \A s \in Statuses \cup {undefined} : TableRow(vin, s) => s = vout

\* C3 witness: a joint resolution with the constitutional-amendment title
\* passed unamended by the second chamber has come out as PASSED:CONSTAMEND
C3_Witness ==
  /\ pc = "voted"
  /\ vin.vote_type = "vote2" /\ vin.passed /\ ~Truthy(vin.amended)
  /\ vin.bill_type = "sjres" /\ vin.title = ConstAmendTitle
  /\ vout = "PASSED:CONSTAMEND"

OriginatingChamber(bill_type) ==
  IF bill_type \in {"hr", "hres", "hjres", "hconres"} THEN "h" ELSE "s"

C4_Override ==
  (pc = "voted" /\ vin.vote_type = "override")
    => IF vin.chamber = OriginatingChamber(vin.bill_type)
         THEN IF vin.passed
                THEN vout = "VETOED:OVERRIDE_PASS_OVER:" \o HouseOrSenate(vin.chamber)
                ELSE vout = "VETOED:OVERRIDE_FAIL_ORIGINATING:" \o HouseOrSenate(vin.chamber)
         ELSE IF vin.passed
                THEN vout = "ENACTED:VETO_OVERRIDE"
                ELSE vout = "VETOED:OVERRIDE_FAIL_SECOND:" \o HouseOrSenate(vin.chamber)

\* ------------------------------------------------------------------------
\* Claims about actions_for and the bill record
\* ------------------------------------------------------------------------

\* the status parse_bill_action yields for the j-th chronological action
\* when it is handed prev_status
YieldedStatus(j, prev_status) ==
  parse_bill_action(action_for(Reversed(j)), prev_status, bill.bill_type, bill.title).status

\* the status after an action-by-action replay of the first j chronological
\* actions: INTRODUCED until an action yields a status, then the status of
\* the most recent action that yielded one
RECURSIVE ReplayStatus(_)
ReplayStatus(j) ==
  LET Step(before) ==
        LET new_status == YieldedStatus(j, before)
        IN IF Truthy(new_status) THEN new_status ELSE before
  IN IF j = 0 THEN "INTRODUCED" ELSE Step(ReplayStatus(j - 1))

\* C1: the prior status handed to the classification of each action is the
\* status of the replay of the earlier actions: INTRODUCED for the first
\* action and until a status change, then the status of the most recent
\* earlier action that changed it.
C1_PriorStatus ==
  \A j \in 1..Len(handed) : handed[j] = ReplayStatus(j - 1)

\* C2: in the list actions_for returns, every action whose classification
\* yields a status carries that status in its status field, and every other
\* action carries none.
C2_StatusStamps ==
  (pc = "latest")
    => \A j \in 1..Len(actions) : actions[j].status = YieldedStatus(j, handed[j])

\* the chronological positions of the actions whose classification yielded
\* a status
StatusChanges ==
  { j \in 1..Len(handed) : Truthy(YieldedStatus(j, handed[j])) }

\* C6: the final status of the record is the status set by the last
\* status-changing action, whatever unmatched or status-neutral actions
\* follow it; status and status_at are INTRODUCED and the introduction date
\* exactly when no action changed the status.
C6_FinalStatus ==
  (pc = "done")
    => IF StatusChanges = {}
         THEN /\ rec.status = "INTRODUCED"
              /\ rec.status_at = RawDate(bill.introducedDate)
         ELSE LET last == CHOOSE j \in StatusChanges : \A q \in StatusChanges : q <= j
              IN /\ rec.status = YieldedStatus(last, handed[last])
                 /\ rec.status_at # RawDate(bill.introducedDate)

\* C7 (Scenario B): an hr bill referred, reported, passed by the House by
\* voice vote and passed by the Senate without amendment gets the final
\* status PASSED:BILL.
C7_ScenarioB ==
  (pc = "done" /\ bill.bill_type = "hr" /\ bill.items = ScenarioB)
    => rec.status = "PASSED:BILL"

\* C8 (Scenario A): an hr bill with the single action "Introduced in House"
\* gets status INTRODUCED and history.active false.
C8_ScenarioA ==
  (/\ pc = "done" /\ bill.bill_type = "hr"
   /\ Len(bill.items) = 1 /\ bill.items[1].text = T.introduced)
    => /\ rec.status = "INTRODUCED"
       /\ rec.history.active = FALSE

\* C9: the actions of the record are the kept raw actions, each once, in
\* the reverse of the kept source order; deriving status and history adds,
\* removes and reorders nothing.
C9_RecordActions ==
  (pc = "done")
    => /\ Len(rec.actions) = Len(keptIdx)
       /\ \A j \in 1..Len(rec.actions) :
            /\ rec.actions[j].text = action_for(Reversed(j)).text
            /\ rec.actions[j].acted_at = action_for(Reversed(j)).acted_at

\* ------------------------------------------------------------------------
\* Claims about the deduplicator
\* ------------------------------------------------------------------------

NotSpace(c) ==
  ~IsSpace(c)

\* the whitespace-stripped, reference-stripped text of spec section 4.2
StrippedText(item) ==
  SelectSeq(StripLinks(item.text), NotSpace)

\* "both times match, or either time is absent" of spec section 4.2
TimesAgree(first, second) ==
  \/ first.actionTime = second.actionTime
  \/ ~Truthy(first.actionTime)
  \/ ~Truthy(second.actionTime)

\* C10: of two consecutive source-ordered actions with source-system code
\* "9", identical dates (and times that do not disagree) and the second's
\* stripped text ending with the first's stripped text, the second is dropped
\* by the deduplicator.
C10_DedupRule ==
  (pc \in {"map", "latest"})
    => \A i \in 1..(Len(bill.items) - 1) :
         LET first == bill.items[i]
             second == bill.items[i + 1]
         IN ( /\ first.sourceSystem = "9" /\ second.sourceSystem = "9"
              /\ first.text # << >> /\ second.text # << >>
              /\ first.actionDate \in ValidDates
              /\ first.actionDate = second.actionDate
              /\ TimesAgree(first, second)
              /\ EndsWith(StrippedText(second), StrippedText(first)) )
            => \A n \in 1..Len(keptIdx) : keptIdx[n] # i + 1

\* the filter has passed over every action without an error
Filtered ==
  pc \in {"map", "latest"}

Kept(i) ==
  \E n \in 1..Len(keptIdx) : keptIdx[n] = i

\* the code's test of two actions: code "9", the same date, times that do
\* not disagree, and the text of the second ending with the text of the
\* first, both without links and without their first space
Repeats(second, first) ==
  /\ second.sourceSystem = "9"
  /\ second.actionDate = first.actionDate
  /\ TimesAgree(first, second)
  /\ SameStrippedText(second, first)

\* the positions before i of the actions that have a text
TextBefore(i) ==
  { j \in 1..(i - 1) : bill.items[j].text # << >> }

\* C27 as stated: an action is compared with the action just before it in
\* source order, kept or dropped, one dropped for its empty text included: an
\* action with text is dropped only when it repeats the action just before it.
C27_Original ==
  Filtered
    => \A i \in 1..Len(bill.items) :
         (bill.items[i].text # << >> /\ ~Kept(i))
           => i > 1 /\ Repeats(bill.items[i], bill.items[i - 1])

\* C27, amended: an action with text is compared with the last action before
\* it in source order that has a text, whether that one was kept or dropped as
\* a repetition, never with the last kept action; an action without text is
\* dropped and is no action to compare with.
C27_PrecedingAction ==
  Filtered
    => \A i \in 1..Len(bill.items) :
         IF bill.items[i].text = << >> THEN ~Kept(i)
         ELSE ~Kept(i)
                <=> \E j \in TextBefore(i) :
                      /\ \A q \in TextBefore(i) : q <= j
                      /\ Repeats(bill.items[i], bill.items[j])

\* C27 witness: "bc", "a bc", "bc": the second repeats the first and is
\* dropped, the third is compared with the second and kept
C27_Witness ==
  /\ Filtered
  /\ Len(bill.items) = 3
  /\ bill.items[1].text = D_BC /\ bill.items[2].text = D_A_BC /\ bill.items[3].text = D_BC
  /\ Repeats(bill.items[3], bill.items[1])
  /\ keptIdx = << 1, 3 >>

\* the two actions both have a time and the times differ
TimesDiffer(first, second) ==
  /\ Truthy(first.actionTime) /\ Truthy(second.actionTime)
  /\ first.actionTime # second.actionTime

\* action i has a text and is none the filter may drop: its source is absent
\* or not "9", or its date or its time differs from the action before it
\* that has a text, or there is no such action
NotToDrop(i) ==
  /\ bill.items[i].text # << >>
  /\ \/ bill.items[i].sourceSystem # "9"
     \/ TextBefore(i) = {}
     \/ \E j \in TextBefore(i) :
          /\ \A q \in TextBefore(i) : q <= j
          /\ \/ bill.items[i].actionDate # bill.items[j].actionDate
             \/ TimesDiffer(bill.items[j], bill.items[i])

\* C28: an action with text whose source code is absent or not "9", or whose
\* date differs from the preceding action's, or whose time differs from it
\* when both have one, is neither dropped nor rejected; the first action with
\* text is kept.
C28_NeverDropped ==
  /\ Filtered => \A i \in 1..Len(bill.items) : NotToDrop(i) => Kept(i)
  /\ (pc = "error" /\ bill.items # << >>) => ~NotToDrop(k)

\* C29: a code-9 action with the date of the action before it (and a time
\* that does not disagree) whose text is the same as that action's text when
\* all whitespace is taken out of both is dropped.
C29_WhitespaceStripped ==
  Filtered
    => \A i \in 2..Len(bill.items) :
         LET first == bill.items[i - 1]
             second == bill.items[i]
         IN ( /\ first.text # << >> /\ second.text # << >>
              /\ second.sourceSystem = "9"
              /\ first.actionDate \in ValidDates
              /\ first.actionDate = second.actionDate
              /\ TimesAgree(first, second)
              /\ StrippedText(second) = StrippedText(first) )
            => ~Kept(i)

\* C12: an action whose date or time is malformed or absent raises no error
\* in action_for or actions_for: the run does not end in an error.
C12_MalformedDate ==
  (\E i \in 1..Len(bill.items) :
     ~ValidTimestamp(bill.items[i].actionDate, bill.items[i].actionTime))
    => pc # "error"

\* the type build_dict gives the j-th chronological action of the bill
ClassifiedType(j) ==
  build_dict(Reversed(j), j - 1, bill.bill_type, bill.title).action[1].type

\* the chronological positions of the bill's classified actions of a type
ClassifiedAs(type) ==
  { j \in 1..Len(keptIdx) : ClassifiedType(j) = type }

\* C13: in the record, history.enacted is true exactly when one of the
\* bill's classified actions has type enacted, with enacted_at the timestamp
\* of that action, and history.vetoed is true exactly when one has type vetoed.
C13_EnactedVetoed ==
  (pc = "done")
    => /\ rec.history.enacted = (ClassifiedAs("enacted") # {})
       /\ \A j \in ClassifiedAs("enacted") :
            (\A q \in ClassifiedAs("enacted") : q <= j)
              => rec.history.enacted_at = action_for(Reversed(j)).acted_at
       /\ rec.history.vetoed = (ClassifiedAs("vetoed") # {})

\* ------------------------------------------------------------------------
\* Claims about the handler
\* ------------------------------------------------------------------------

\* C11: a failure while transforming one bill of a batch does not abort the
\* batch: when the handler has responded, every record whose document can be
\* fetched and transformed has been stored, whatever failed before it.
C11_FailureIsolation ==
  (pc = "handler" /\ batch.at = "responded")
    => \A n \in 1..Len(batch.Records) :
         batch.Records[n] = "good" => \E m \in 1..Len(batch.stored) : batch.stored[m] = n

\* ------------------------------------------------------------------------
\* Claims about history_from_actions
\* ------------------------------------------------------------------------

HistoryReturned ==
  pc = "returned" /\ call.name = "history_from_actions"

\* the positions of the actions of the call with a type
OfType(type) ==
  { j \in 1..Len(call.actions) : call.actions[j].type = type }

\* C14: for the classified actions referral, calendar, introductory remarks
\* and then a substantive action, active is true and active_at is the
\* timestamp of the substantive action, not of the remarks.
C14_RemarksSkipped ==
  ( /\ HistoryReturned
    /\ Len(call.actions) >= 4
    /\ call.actions[1].type = "referral"
    /\ call.actions[2].type = "calendar"
    /\ call.actions[3].text = T.remarks
    /\ call.actions[4].type \notin {"referral", "calendar"}
    /\ call.actions[4].text # T.remarks )
    => /\ result.active = TRUE
       /\ result.active_at = call.actions[4].acted_at

\* C15: for an empty list of classified actions the history is inactive:
\* active is false and active_at is not set.
C15_EmptyInactive ==
  (HistoryReturned /\ call.actions = << >>)
    => /\ result.active = FALSE
       /\ result.active_at = NoTime

PassageVotes(where) ==
  { j \in OfType("vote") :
      call.actions[j].where = where /\ call.actions[j].vote_type # "override" }

\* the positions of the cloture votes
ClotureVotes ==
  { j \in OfType("vote-aux") :
      call.actions[j].where = "s" /\ call.actions[j].vote_type = "cloture" }

\* result and timestamp are those of the last action among the positions,
\* and absent when there is none
IsLastOf(positions, res, at) ==
  IF positions = {} THEN res = undefined /\ at = NoTime
  ELSE \E j \in positions :
         /\ \A q \in positions : q <= j
         /\ res = call.actions[j].result
         /\ at = call.actions[j].acted_at

\* C16: the House (Senate) passage result and its timestamp are those of the
\* chronologically last action with type vote, where h (s) and a vote_type
\* other than override, and are absent without such a vote; override and
\* cloture votes decide no passage result, and a cloture vote (classified
\* vote-aux) shows in senate_cloture_result only.
C16_PassageResults ==
  HistoryReturned
    => /\ IsLastOf(PassageVotes("h"), result.house_passage_result,
                   result.house_passage_result_at)
       /\ IsLastOf(PassageVotes("s"), result.senate_passage_result,
                   result.senate_passage_result_at)
       /\ IsLastOf(ClotureVotes, result.senate_cloture_result,
                   result.senate_cloture_result_at)
       /\ ExtraOf[T.cloture_failed].type = "vote-aux"
       /\ ExtraOf[T.cloture_failed].vote_type = "cloture"

\* C16 witness: a House passage followed by a House override vote and a
\* failed cloture vote: the passage result is still that of the first action
C16_Witness ==
  /\ HistoryReturned
  /\ Len(call.actions) = 3
  /\ call.actions[1].text = T.hpass
  /\ call.actions[2].text = T.hoverride
  /\ call.actions[3].text = T.cloture_failed
  /\ result.house_passage_result = "pass"
  /\ result.house_passage_result_at = call.actions[1].acted_at
  /\ result.senate_passage_result = undefined
  /\ result.senate_cloture_result = "fail"

\* C17: awaiting_signature is true exactly when some action has type
\* topresident and vetoed and enacted are both false, so never together with
\* vetoed or enacted; awaiting_signature_since is then the timestamp of the
\* last topresident action.
C17_AwaitingSignature ==
  HistoryReturned
    => /\ result.awaiting_signature
            = (OfType("topresident") # {} /\ ~result.vetoed /\ ~result.enacted)
       /\ ~(result.awaiting_signature /\ (result.vetoed \/ result.enacted))
       /\ result.vetoed = (OfType("vetoed") # {})
       /\ result.enacted = (OfType("enacted") # {})
       /\ result.awaiting_signature
            => \E j \in OfType("topresident") :
                 /\ \A q \in OfType("topresident") : q <= j
                 /\ result.awaiting_signature_since = call.actions[j].acted_at

\* C17 witness: presented to the President twice: awaiting signature since
\* the second presentation
C17_Witness ==
  /\ HistoryReturned
  /\ Len(call.actions) = 3
  /\ call.actions[1].text = T.topresident
  /\ call.actions[2].text = T.hpass
  /\ call.actions[3].text = T.topresident
  /\ result.awaiting_signature
  /\ result.awaiting_signature_since = call.actions[3].acted_at

\* ------------------------------------------------------------------------
\* Claims about titles_for
\* ------------------------------------------------------------------------

TitlesReturned ==
  pc = "returned" /\ call.name = "titles_for"

X_SHORT_AS_INTRODUCED ==
  << "S", "h", "o", "r", "t", " ", "T", "i", "t", "l", "e", "s", " ", "a", "s", " ", "I", "n",
     "t", "r", "o", "d", "u", "c", "e", "d" >>

X_OFFICIAL_PORTIONS ==
  << "O", "f", "f", "i", "c", "i", "a", "l", " ", "T", "i", "t", "l", "e", " ", "a", "s", " ",
     "I", "n", "t", "r", "o", "d", "u", "c", "e", "d", " ", "f", "o", "r", " ", "p", "o", "r",
     "t", "i", "o", "n", "s", " ", "o", "f", " ", "t", "h", "i", "s", " ", "b", "i", "l", "l" >>

X_INTRODUCED ==
  << "i", "n", "t", "r", "o", "d", "u", "c", "e", "d" >>

\* without the first colon, in lower case
QualifierAs(qualifier) ==
  LET colons == { i \in 1..Len(qualifier) : qualifier[i] = ":" }
      kept == { i \in 1..Len(qualifier) : \E c \in colons : c < i }
      first == { i \in colons : i \notin kept }
  IN LowerText(SelectSeq([ i \in 1..Len(qualifier) |->
                             IF i \in first THEN "" ELSE qualifier[i] ],
                         LAMBDA c : c # ""))

\* C18: "Short Titles as Introduced" yields type short, as "introduced" and
\* is_for_portion false; "Official Title as Introduced for portions of this
\* bill" yields type official, as "introduced" and is_for_portion true; and a
\* qualifier that ends in " for portions of this bill" sets is_for_portion,
\* with as the qualifier without these words, in lower case.
C18_TitleParsing ==
  TitlesReturned
    => \A j \in 1..Len(call.titles) :
         LET label == call.titles[j].titleType
         IN /\ label = X_SHORT_AS_INTRODUCED /\ ~result.threw
                 => /\ result.titles[j].type = "short"
                    /\ result.titles[j].as = << X_INTRODUCED >>
                    /\ result.titles[j].is_for_portion = FALSE
            /\ label = X_OFFICIAL_PORTIONS /\ ~result.threw
                 => /\ result.titles[j].type = "official"
                    /\ result.titles[j].as = << X_INTRODUCED >>
                    /\ result.titles[j].is_for_portion = TRUE
            /\ label \in { X_SHORT_AS_INTRODUCED, X_OFFICIAL_PORTIONS } /\ Len(call.titles) = 1
                 => ~result.threw
            /\ \A kind \in TitleKinds, sep \in {W.as, W.on}, qualifier \in TitleQualifiers :
                 (label = kind \o sep \o qualifier \o W.portions /\ ~result.threw)
                   => /\ result.titles[j].is_for_portion = TRUE
                      /\ result.titles[j].as = << QualifierAs(qualifier) >>

\* C18 witness: the label "Official Title as Introduced for portions of this
\* bill" parsed as an official title for a portion of the bill
C18_Witness ==
  /\ TitlesReturned
  /\ Len(call.titles) = 1
  /\ call.titles[1].titleType = X_OFFICIAL_PORTIONS
  /\ ~result.threw
  /\ result.titles[1].is_for_portion
  /\ result.titles[1].as = << X_INTRODUCED >>

\* ------------------------------------------------------------------------
\* Claims about the bill id
\* ------------------------------------------------------------------------

IdReturned ==
  pc = "returned" /\ call.name = "transformGovInfoBill"

\* the id of the bill of the call
CallBillId ==
  build_bill_id(LowerText(call.billType), call.billNumber, call.congress)

\* the id is letters, digits, a hyphen and digits, nothing else
WellFormedId(bill_id) ==
  \E i, j \in 1..Len(bill_id) :
    /\ i < j
    /\ \A q \in 1..Len(bill_id) :
         \/ q <= i /\ IsLetter(bill_id[q])
         \/ q > i /\ q < j /\ IsDigit(bill_id[q])
         \/ q = j /\ bill_id[q] = "-"
         \/ q > j /\ IsDigit(bill_id[q])
    /\ i + 1 < j /\ j < Len(bill_id)

\* split_bill_id gives back what build_bill_id combined
RoundTrip ==
  LET parts == split_bill_id(CallBillId)
  IN /\ ~parts.threw
     /\ parts.bill_type = LowerText(call.billType)
     /\ parts.bill_number = call.billNumber
     /\ parts.congress = call.congress

OnlyLetters(t) ==
  \A i \in 1..Len(t) : IsLetter(t[i])

OnlyDigits(t) ==
  \A i \in 1..Len(t) : IsDigit(t[i])

ParseReturned ==
  pc = "returned" /\ call.name = "parse_bill_action"

\* the prior status the rules see: the default "" for an undefined argument
PriorStatus ==
  IF call.prev_status = undefined THEN "" ELSE call.prev_status

\* C21: a discharge by committee is classified without error, with type
\* discharged and the committee, and the status REPORTED after INTRODUCED or
\* REFERRED.
C21_Discharged ==
  (ParseReturned /\ call.text = T.discharged)
    => /\ result.parsed.ret = "ok"
       /\ result.parsed.action.type = "discharged"
       /\ result.parsed.action.committee = "Finance"
       /\ PriorStatus \in {"INTRODUCED", "REFERRED"} => result.parsed.status = "REPORTED"

\* C22: a passing House vote on agreeing to the resolution of an hres bill,
\* and a passing Senate vote agreeing to the resolution of an sres bill, give
\* the status PASSED:SIMPLERES.
C22_SimpleResolution ==
  ( /\ ParseReturned
    /\ \/ call.text = T.hres_agreed /\ call.bill_type = "hres"
       \/ call.text = T.sres_agreed /\ call.bill_type = "sres" )
    => /\ result.parsed.ret = "ok"
       /\ result.parsed.action.result = "pass"
       /\ result.parsed.status = "PASSED:SIMPLERES"

\* the statuses that start with "VETOED:"
VetoedStatuses ==
  { "VETOED:POCKET", "VETOED:OVERRIDE_FAIL_ORIGINATING:HOUSE",
    "VETOED:OVERRIDE_FAIL_ORIGINATING:SENATE", "VETOED:OVERRIDE_FAIL_SECOND:HOUSE",
    "VETOED:OVERRIDE_FAIL_SECOND:SENATE", "VETOED:OVERRIDE_PASS_OVER:HOUSE",
    "VETOED:OVERRIDE_PASS_OVER:SENATE" }

\* C23: an action citing a public or private law has type enacted; it sets
\* no status after ENACTED:SIGNED, ENACTED:VETO_OVERRIDE or
\* ENACTED:TENDAYRULE, the status ENACTED:VETO_OVERRIDE after PROV_KILL:VETO
\* or a status starting with "VETOED:", and no status after any other.
C23_EnactedByCitation ==
  (ParseReturned /\ call.text \in {T.law, T.private_law})
    => /\ result.parsed.ret = "ok"
       /\ result.parsed.action.type = "enacted"
       /\ result.parsed.action.law = (IF call.text = T.law THEN "public" ELSE "private")
       /\ result.parsed.status =
            IF PriorStatus \in {"ENACTED:SIGNED", "ENACTED:VETO_OVERRIDE", "ENACTED:TENDAYRULE"}
              THEN undefined
            ELSE IF PriorStatus = "PROV_KILL:VETO" \/ PriorStatus \in VetoedStatuses
              THEN "ENACTED:VETO_OVERRIDE"
            ELSE undefined

\* C23 witness: a private law after a veto
C23_Witness ==
  /\ ParseReturned
  /\ call.text = T.private_law
  /\ call.prev_status = "PROV_KILL:VETO"
  /\ result.parsed.action.type = "enacted"
  /\ result.parsed.status = "ENACTED:VETO_OVERRIDE"

\* C24: a referral gives REFERRED only after INTRODUCED, and a calendar
\* placement, a committee report or an order to report gives REPORTED only
\* after INTRODUCED or REFERRED; after every other status these actions set
\* no status.
C24_CommitteeStage ==
  ParseReturned
    => /\ call.text = T.referred
            => /\ result.parsed.action.type = "referral"
               /\ result.parsed.status
                    = (IF PriorStatus = "INTRODUCED" THEN "REFERRED" ELSE undefined)
       /\ call.text \in {T.calendar, T.ordered, T.reported}
            => /\ result.parsed.action.type
                    = (IF call.text = T.reported THEN "reported" ELSE "calendar")
               /\ result.parsed.status
                    = (IF PriorStatus \in {"INTRODUCED", "REFERRED"} THEN "REPORTED"
                       ELSE undefined)
       /\ (result.parsed.ret = "ok"
             /\ result.parsed.action.type \in {"referral", "calendar", "reported"})
            => /\ result.parsed.status = "REFERRED" => PriorStatus = "INTRODUCED"
               /\ result.parsed.status = "REPORTED"
                    => PriorStatus \in {"INTRODUCED", "REFERRED"}
               /\ PriorStatus \notin {"INTRODUCED", "REFERRED"}
                    => result.parsed.status = undefined

\* C24 witness: an order to report after the bill passed the House sets no
\* status
C24_Witness ==
  /\ ParseReturned
  /\ call.text = T.ordered
  /\ call.prev_status = "PASS_OVER:HOUSE"
  /\ result.parsed.action.type = "calendar"
  /\ result.parsed.status = undefined

\* C25: every rule is tried in order whatever matched before, and each field
\* holds what the last matching rule that writes it wrote, the fields of
\* earlier rules kept: a referral that is also a committee report, or also a
\* discharge, has type referral with the committee of the earlier rule.
C25_LastMatchWins ==
  (ParseReturned /\ call.text \in {T.referred_reported, T.referred_discharged})
    => /\ result.parsed.ret = "ok"
       /\ result.parsed.action.type = "referral"
       /\ result.parsed.action.committee = "Finance"
       /\ result.parsed.status
            = (CASE PriorStatus = "INTRODUCED" -> "REFERRED"
                 [] PriorStatus = "REFERRED" -> "REPORTED"
                 [] OTHER -> undefined)

\* the text begins with H.Amdt. or S.Amdt. and a digit, in any case
BeginsWithAmendmentNumber(text) ==
  /\ Len(text) >= 8
  /\ text[1] \in {"H", "h", "S", "s"}
  /\ text[2] = "."
  /\ text[3] \in {"A", "a"} /\ text[4] \in {"M", "m"}
  /\ text[5] \in {"D", "d"} /\ text[6] \in {"T", "t"}
  /\ text[7] = "."
  /\ IsDigit(text[8])

\* C26: an action whose text begins with an amendment number keeps type
\* action, has no vote, committee or law property, and gets no status,
\* whatever else its text matches and whatever the prior status is.
C26_AmendmentExcluded ==
  (ParseReturned /\ BeginsWithAmendmentNumber(call.text))
    => /\ result.parsed.ret = "empty"
       /\ result.built.ret = "ok"
       /\ LET action == result.built.action[1]
          IN /\ action.type = "action"
             /\ action.status = undefined
             /\ action.vote_type = undefined /\ action.where = undefined
             /\ action.result = undefined /\ action.how = undefined
             /\ action.roll = undefined /\ action.suspension = undefined
             /\ action.committee = undefined
             /\ action.law = undefined /\ action.congress = undefined
             /\ action.number = undefined

\* C26 witness: a Senate amendment referred to a committee, on a bill just
\* introduced, stays an action without status
C26_Witness ==
  /\ ParseReturned
  /\ call.text = T.amendment_referred
  /\ call.prev_status = "INTRODUCED"
  /\ result.parsed.ret = "empty"
  /\ result.built.action[1].type = "action"
  /\ result.built.action[1].status = undefined

\* ------------------------------------------------------------------------
\* SpecConference: a replay of conference-report votes, the status each vote
\* returns handed to the next as prev_status (build_dict's closure)
\* ------------------------------------------------------------------------

MaxVotes ==
  3

\* the votes are conference-report votes (pass_fail == "pass" or not, chamber
\* "h" or "s"); the status before the first is closure's initial prev_status
\* or that of the amendment exchange that led to the conference
InitConference ==
  /\ pc = "replay"
  /\ \E votes \in SeqsUpTo([ passed : BOOLEAN, chamber : {"h", "s"} ], MaxVotes) :
       call = [ name |-> "replay", votes |-> votes ]
  /\ \E bill_type \in BillTypes, title \in VoteTitles,
        prev_status \in {"INTRODUCED", "PASS_BACK:HOUSE", "PASS_BACK:SENATE"} :
       /\ vin = [ NoVote EXCEPT !.vote_type = "conference", !.bill_type = bill_type,
                                !.title = title, !.prev_status = prev_status ]
       /\ vout = prev_status
  /\ k = 1
  /\ handed = << >>
  /\ result = undefined
  /\ bill = NoBill
  /\ prev = << >>
  /\ keptIdx = << >>
  /\ actions = << >>
  /\ latest = NoLatest
  /\ rec = << >>
  /\ err = undefined
  /\ batch = NoBatch
  /\ earlier = << >>
  /\ NoSitemaps

\* one conference-report vote: new_status_after_vote on the status so far,
\* which changes only if a status comes back (if (new_status) ...)
ReplayConferenceVote ==
  /\ pc = "replay" /\ call.name = "replay"
  /\ k <= Len(call.votes)
  /\ LET vote == call.votes[k]
         new_status == new_status_after_vote("conference", vote.passed, vote.chamber,
                                             vin.bill_type, vin.suspension, vin.amended,
                                             vin.title, vout)
     IN /\ vin' = [ vin EXCEPT !.passed = vote.passed, !.chamber = vote.chamber,
                               !.prev_status = vout ]
        /\ vout' = IF Truthy(new_status) THEN new_status ELSE vout
        /\ handed' = Append(handed, vote)
  /\ k' = k + 1
  /\ UNCHANGED <<pc, bill, prev, keptIdx, actions, latest, rec, err, call, result, batch,
                 earlier, remote, bucket, queues, run>>

SpecConference ==
  InitConference /\ [][ReplayConferenceVote]_vars

\* the conference report has passed in chamber c among the votes replayed
ConferencePassedIn(c) ==
  \E i \in 1..Len(handed) : handed[i].passed /\ handed[i].chamber = c

\* the last vote replayed moved the status from CONFERENCE:PASSED:* to the
\* end of the legislative process
ConferenceCompleted ==
  /\ pc = "replay" /\ call.name = "replay" /\ k > 1
  /\ StartsWithConferencePassed(vin.prev_status)
  /\ vout \in {"PASSED:BILL", "PASSED:CONSTAMEND", "PASSED:CONCURRENTRES"}

\* C31: in a replay of conference-report votes the status moves from
\* CONFERENCE:PASSED:* to PASSED:BILL, PASSED:CONSTAMEND or
\* PASSED:CONCURRENTRES only after the conference report has passed in both
\* chambers: one passing vote with chamber h and one with chamber s.
C31_BothChambers ==
  ConferenceCompleted => (ConferencePassedIn("h") /\ ConferencePassedIn("s"))

\* ------------------------------------------------------------------------
\* fetchBills and processBillTypeUpdate: the sitemap diff and its fan-out
\* ------------------------------------------------------------------------

MaxEntries ==
  2

MaxRuns ==
  2

MaxUpdates ==
  21

\* the sitemaps of at most MaxEntries url nodes with a loc of Locs, each loc
\* once; a lastmod is compared as a string
Sitemaps(Locs) ==
  { s \in SeqsUpTo([ loc : Locs, lastmod : ValidDates ], MaxEntries) :
      \A i, j \in 1..Len(s) : s[i].loc = s[j].loc => i = j }

\* a server entry counts as changed whatever its lastmod, once a local entry
\* has its loc
IndexChangedByLoc(serverIndex, local) ==
  SelectSeq(local, LAMBDA index : index.loc = serverIndex.loc) = << >>

\* processIndexUpdates of processBillTypeUpdate, the test of one server
\* entry: localIndex is the last local entry with its loc;
\* !localIndex || localIndex.lastmod !== serverIndex.lastmod
IndexChanged(serverIndex, local) ==
  LET same == SelectSeq(local, LAMBDA index : index.loc = serverIndex.loc)
  IN  \/ same = << >>
      \/ same[Len(same)].lastmod # serverIndex.lastmod

\* keys.slice(batch * 10, batch * 10 + 11): a batch that overlaps the next
BatchEntriesOverlapping(keys, batchNo) ==
  SubSeq(keys, batchNo * 10 + 1,
         IF batchNo * 10 + 11 < Len(keys) THEN batchNo * 10 + 11 ELSE Len(keys))

\* keys.slice(batch * 10, batch * 10 + 10), batchNo standing for batch
BatchEntries(keys, batchNo) ==
  SubSeq(keys, batchNo * 10 + 1,
         IF batchNo * 10 + 10 < Len(keys) THEN batchNo * 10 + 10 ELSE Len(keys))

\* fetchBills up to its loop: the event has no id (400), the server sitemap
\* cannot be fetched or parsed (404), reading the stored sitemap fails with
\* another error than 404 (rethrown), or both are read. fetchValidIndexes
\* keeps the entries of the current congress; a missing stored sitemap is an
\* empty list of entries.
FetchBills ==
  /\ run.at \in {"idle", "returned"}
  /\ run.n < MaxRuns
  /\ LET begun == [ NoRun EXCEPT !.handler = "fetchBills", !.n = run.n + 1,
                                 !.before = bucket ]
         valid(sitemap) == SelectSeq(sitemap, LAMBDA index : index.loc = "116hr")
     IN \/ run' = [ begun EXCEPT !.at = "returned", !.response = "400" ]
        \/ run' = [ begun EXCEPT !.at = "returned", !.response = "404" ]
        \/ /\ bucket.index # << >>
           /\ run' = [ begun EXCEPT !.at = "returned", !.response = "500" ]
        \/ run' = [ begun EXCEPT !.at = "queue", !.i = 1,
                                 !.sitemap = remote.index,
                                 !.server = valid(remote.index),
                                 !.local = IF bucket.index = << >> THEN << >>
                                           ELSE valid(bucket.index[1]) ]
  /\ UNCHANGED <<pc, bill, k, prev, keptIdx, actions, handed, latest, rec, err, vin, vout,
                 call, result, batch, earlier, remote, bucket, queues>>

\* one round of the loop of fetchBills' processIndexUpdates: a changed server
\* entry is sent to the bill-type update queue with sendMessage, which
\* resolves or throws; the catch of the handler answers a throw
QueueIndexUpdate ==
  /\ run.handler = "fetchBills" /\ run.at = "queue"
  /\ run.i <= Len(run.server)
  /\ LET serverIndex == run.server[run.i]
         same == SelectSeq(run.local, LAMBDA index : index.loc = serverIndex.loc)
     IN IF same = << >> \/ same[Len(same)].lastmod # serverIndex.lastmod
          THEN \/ /\ queues' = [ queues EXCEPT !.types = Append(@, serverIndex) ]
                  /\ run' = [ run EXCEPT !.i = @ + 1,
                                         !.sent = Append(@, <<serverIndex>>) ]
               \/ /\ run' = [ run EXCEPT !.at = "returned", !.response = "500",
                                         !.sent = Append(@, <<serverIndex>>) ]
                  /\ UNCHANGED queues
          ELSE /\ run' = [ run EXCEPT !.i = @ + 1 ]
               /\ UNCHANGED queues
  /\ UNCHANGED <<pc, bill, k, prev, keptIdx, actions, handed, latest, rec, err, vin, vout,
                 call, result, batch, earlier, remote, bucket>>

\* fetchBills after its loop: updateSitemap uploads the server sitemap as
\* fetched, and the handler answers 200, or the upload throws
UpdateIndexSitemap ==
  /\ run.handler = "fetchBills" /\ run.at = "queue"
  /\ run.i > Len(run.server)
  /\ \/ /\ bucket' = [ bucket EXCEPT !.index = <<run.sitemap>> ]
        /\ run' = [ run EXCEPT !.at = "returned", !.response = "200" ]
     \/ /\ run' = [ run EXCEPT !.at = "returned", !.response = "500" ]
        /\ UNCHANGED bucket
  /\ UNCHANGED <<pc, bill, k, prev, keptIdx, actions, handed, latest, rec, err, vin, vout,
                 call, result, batch, earlier, remote, queues>>

\* processBillTypeUpdate on the one record of its event (batchSize: 1), up
\* to the call of queueIndexUpdates. The message leaves the queue for good:
\* the handler catches every error and returns a response, so the invocation
\* never fails. request(loc) throws, or the server sitemap is read; any error
\* of reading the stored sitemap is swallowed (missed) and leaves no local
\* entries. Every url of the served sitemap is one of a bill of the type, which
\* fetchValidIndexes keeps. updates holds the changed server entries in
\* server order. A response of "500" stands for err.statusCode || 500.
ProcessBillTypeUpdate ==
  /\ run.at \in {"idle", "returned"}
  /\ run.n < MaxRuns
  /\ queues.types # << >>
  /\ queues' = [ queues EXCEPT !.types = Tail(@) ]
  /\ LET begun == [ NoRun EXCEPT !.handler = "processBillTypeUpdate", !.n = run.n + 1,
                                 !.before = bucket ]
     IN \/ run' = [ begun EXCEPT !.at = "returned", !.response = "500" ]
        \/ \E missed \in (IF bucket.bills = << >> THEN {FALSE} ELSE BOOLEAN) :
             LET local == IF missed \/ bucket.bills = << >> THEN << >>
                          ELSE bucket.bills[1]
                 updates == SelectSeq(remote.bills,
                                      LAMBDA serverIndex : IndexChanged(serverIndex, local))
             IN run' = [ begun EXCEPT !.at = IF updates = << >> THEN "upload" ELSE "queue",
                                      !.sitemap = remote.bills,
                                      !.server = remote.bills, !.local = local,
                                      !.keys = updates, !.missed = missed ]
  /\ UNCHANGED <<pc, bill, k, prev, keptIdx, actions, handed, latest, rec, err, vin, vout,
                 call, result, batch, earlier, remote, bucket>>

\* one call of queueIndexUpdates(keys, batch): no entries, no call; else
\* sendMessageBatch throws, or resolves with the entries the queue did not
\* accept listed in Failed (none, or the first), which the code does not read;
\* then the next batch if batch * 10 + 10 < keys.length
QueueIndexUpdates ==
  /\ run.handler = "processBillTypeUpdate" /\ run.at = "queue"
  /\ LET entries == BatchEntries(run.keys, run.i)
     IN IF entries = << >>
          THEN /\ run' = [ run EXCEPT !.at = "upload" ]
               /\ UNCHANGED queues
          ELSE \/ /\ run' = [ run EXCEPT !.at = "returned", !.response = "500",
                                         !.sent = Append(@, entries) ]
                  /\ UNCHANGED queues
               \/ \E Failed \in {<< >>, <<entries[1]>>} :
                    /\ queues' = [ queues EXCEPT
                                     !.bills = @ \o (IF Failed = << >> THEN entries
                                                     ELSE Tail(entries)) ]
                    /\ run' = [ run EXCEPT
                                  !.sent = Append(@, entries),
                                  !.failed = @ \o Failed,
                                  !.i = IF run.i * 10 + 10 < Len(run.keys) THEN @ + 1 ELSE @,
                                  !.at = IF run.i * 10 + 10 < Len(run.keys) THEN "queue"
                                         ELSE "upload" ]
  /\ UNCHANGED <<pc, bill, k, prev, keptIdx, actions, handed, latest, rec, err, vin, vout,
                 call, result, batch, earlier, remote, bucket>>

\* processBillTypeUpdate after processIndexUpdates: updateSitemap uploads the
\* server sitemap as fetched, the loop ends and the handler answers 200, or
\* the upload throws
UpdateSitemap ==
  /\ run.handler = "processBillTypeUpdate" /\ run.at = "upload"
  /\ \/ /\ bucket' = [ bucket EXCEPT !.bills = <<run.sitemap>> ]
        /\ run' = [ run EXCEPT !.at = "returned", !.response = "200" ]
     \/ /\ run' = [ run EXCEPT !.at = "returned", !.response = "500" ]
        /\ UNCHANGED bucket
  /\ UNCHANGED <<pc, bill, k, prev, keptIdx, actions, handed, latest, rec, err, vin, vout,
                 call, result, batch, earlier, remote, queues>>

\* any sitemaps served and stored (a stored sitemap is << >> while the bucket
\* has no such object), both queues empty, no invocation under way
InitSitemap ==
  /\ pc = "sitemaps"
  /\ remote \in [ index : Sitemaps({"116hr", "115hr"}), bills : Sitemaps({"hr1", "hr2"}) ]
  /\ bucket \in [ index : {<< >>} \cup { <<s>> : s \in Sitemaps({"116hr", "115hr"}) },
                  bills : {<< >>} \cup { <<s>> : s \in Sitemaps({"hr1", "hr2"}) } ]
  /\ queues = [ types |-> << >>, bills |-> << >> ]
  /\ run = NoRun
  /\ bill = NoBill
  /\ k = 1
  /\ prev = << >>
  /\ keptIdx = << >>
  /\ actions = << >>
  /\ handed = << >>
  /\ latest = NoLatest
  /\ rec = << >>
  /\ err = undefined
  /\ vin = NoVote
  /\ vout = undefined
  /\ call = NoCall
  /\ result = undefined
  /\ batch = NoBatch
  /\ earlier = << >>

SpecSitemap ==
  InitSitemap /\ [][\/ FetchBills
                    \/ QueueIndexUpdate
                    \/ UpdateIndexSitemap
                    \/ ProcessBillTypeUpdate
                    \/ QueueIndexUpdates
                    \/ UpdateSitemap]_vars

\* ------------------------------------------------------------------------
\* SpecQueue: queueIndexUpdates on a list of n updates
\* ------------------------------------------------------------------------

\* queueIndexUpdates(keys) is called on a list of 0 to MaxUpdates different
\* updates; a sendMessageBatch call returns or throws in the end, which the
\* weak fairness of the step states
InitQueue ==
  /\ pc = "sitemaps"
  /\ \E n \in 0..MaxUpdates, lastmod \in ValidDates :
       run = [ NoRun EXCEPT !.handler = "processBillTypeUpdate", !.at = "queue", !.n = 1,
                            !.keys = [ j \in 1..n |-> [ loc |-> j, lastmod |-> lastmod ] ] ]
  /\ remote = [ index |-> << >>, bills |-> << >> ]
  /\ bucket = [ index |-> << >>, bills |-> << >> ]
  /\ queues = [ types |-> << >>, bills |-> << >> ]
  /\ bill = NoBill
  /\ k = 1
  /\ prev = << >>
  /\ keptIdx = << >>
  /\ actions = << >>
  /\ handed = << >>
  /\ latest = NoLatest
  /\ rec = << >>
  /\ err = undefined
  /\ vin = NoVote
  /\ vout = undefined
  /\ call = NoCall
  /\ result = undefined
  /\ batch = NoBatch
  /\ earlier = << >>

SpecQueue ==
  InitQueue /\ [][QueueIndexUpdates]_vars /\ WF_vars(QueueIndexUpdates)

\* ------------------------------------------------------------------------
\* Claims about the sitemap handlers
\* ------------------------------------------------------------------------

\* the entries of the send calls made so far, in the order sent
RECURSIVE Flatten(_)
Flatten(calls) ==
  IF calls = << >> THEN << >> ELSE calls[1] \o Flatten(Tail(calls))

\* no local entry has the loc of the server entry, or the local entry with
\* that loc has another lastmod
ChangedOnServer(serverIndex, local) ==
  \/ \A i \in 1..Len(local) : local[i].loc # serverIndex.loc
  \/ \E i \in 1..Len(local) :
       /\ local[i].loc = serverIndex.loc
       /\ local[i].lastmod # serverIndex.lastmod

\* the server entries processIndexUpdates has to enqueue, in server order
Detected ==
  SelectSeq(run.server, LAMBDA serverIndex : ChangedOnServer(serverIndex, run.local))

\* the invocation has made every send call it had to make
AllSent ==
  \/ run.handler = "fetchBills" /\ run.at = "queue" /\ run.i > Len(run.server)
  \/ run.handler = "fetchBills" /\ run.at = "returned" /\ run.response = "200"
  \/ run.handler = "processBillTypeUpdate" /\ run.at = "upload"
  \/ run.handler = "processBillTypeUpdate" /\ run.at = "returned" /\ run.response = "200"

\* C32: processIndexUpdates, in processBillTypeUpdate and in fetchBills,
\* enqueues a server sitemap entry if and only if no local entry has its loc
\* or the local entry with its loc has a different lastmod: every entry
\* handed to a send call is such a server entry (so an unchanged entry and an
\* entry present only locally never are), and once the send calls are made
\* the entries sent are exactly those entries.
C32_SitemapDiff ==
  (pc = "sitemaps" /\ run.handler \in {"fetchBills", "processBillTypeUpdate"}
     /\ run.server # << >>)
    => /\ \A i \in 1..Len(Flatten(run.sent)) :
            \E j \in 1..Len(run.server) :
              /\ Flatten(run.sent)[i] = run.server[j]
              /\ ChangedOnServer(run.server[j], run.local)
       /\ AllSent => Flatten(run.sent) = Detected
       /\ (run.handler = "processBillTypeUpdate" /\ run.at \in {"queue", "upload"})
            => run.keys = Detected

\* C32 witness: processBillTypeUpdate has sent the one bill of two whose
\* lastmod changed, and not the unchanged one
C32_Witness ==
  /\ run.handler = "processBillTypeUpdate" /\ run.at = "upload"
  /\ Len(run.server) = 2 /\ Len(run.local) = 2
  /\ Flatten(run.sent) = <<run.server[1]>>
  /\ run.server[2] = run.local[2]
  /\ run.server[1].loc = run.local[1].loc

\* the invocation that has returned overwrote a stored sitemap only with
\* every update it detected accepted by the queue
OverwrittenAfterEnqueue ==
  (run.at = "returned" /\ bucket # run.before)
    => /\ Flatten(run.sent) = Detected
       /\ run.failed = << >>

\* the invocation that has returned after a failed fetch or a failed send
\* left the stored sitemaps as they were
UnchangedOnFailure ==
  (run.at = "returned" /\ (run.response # "200" \/ run.missed \/ run.failed # << >>))
    => bucket = run.before

\* C33: in fetchBills and in processBillTypeUpdate the stored sitemap is
\* overwritten with the server sitemap only after every detected update has
\* been enqueued successfully; if fetching or enqueuing fails, the stored
\* sitemap is left unchanged (so that the next run detects the same updates).
C33_OverwriteAfterEnqueue ==
  (pc = "sitemaps") => (OverwrittenAfterEnqueue /\ UnchangedOnFailure)

\* the changed bills of the bill type that no queue has accepted yet
Unqueued ==
  { j \in 1..Len(remote.bills) :
      /\ ChangedOnServer(remote.bills[j],
                         IF bucket.bills = << >> THEN << >> ELSE bucket.bills[1])
      /\ \A i \in 1..Len(queues.bills) : queues.bills[i] # remote.bills[j] }

\* a run of fetchBills would detect the change of the bill type: the stored
\* index sitemap does not hold the lastmod the server gives it
DetectableByFetchBills ==
  \E j \in 1..Len(remote.index) :
    /\ remote.index[j].loc = "116hr"
    /\ ChangedOnServer(remote.index[j],
                       IF bucket.index = << >> THEN << >> ELSE bucket.index[1])

\* C34: when the handling of a bill-type record in processBillTypeUpdate has
\* failed before its bill updates were enqueued, the record is still in the
\* queue (the invocation failed and the queue redelivers it), or a later run
\* of fetchBills detects the change again because the stored index sitemap
\* does not hold the new lastmod: no changed bill is lost.
C34_NoLostChange ==
  (/\ pc = "sitemaps"
   /\ run.handler = "processBillTypeUpdate" /\ run.at = "returned"
   /\ run.response # "200"
   /\ Unqueued # {})
    => (queues.types # << >> \/ DetectableByFetchBills)

\* every update passed to a send call so far: the calls are the batches of
\* at most 10 of the list, in list order, none sent twice
SentInOrder ==
  /\ Flatten(run.sent) = SubSeq(run.keys, 1, Len(Flatten(run.sent)))
  /\ \A c \in 1..Len(run.sent) :
       /\ Len(run.sent[c]) \in 1..10
       /\ c < Len(run.sent) => Len(run.sent[c]) = 10
  /\ Len(run.sent) <= (Len(run.keys) + 9) \div 10
  /\ run.at = "upload"
       => /\ Flatten(run.sent) = run.keys
          /\ Len(run.sent) = (Len(run.keys) + 9) \div 10
  /\ run.at = "returned" => Len(run.sent) = run.i + 1
  /\ run.keys = << >> => run.sent = << >>

\* C35: queueIndexUpdates terminates for every list of n updates and sends
\* each update exactly once, in list order, in ceil(n/10) batch calls of at
\* most 10 entries each; it sends nothing when n = 0 and stops at the first
\* batch call that throws.
C35_Batches ==
  /\ [](pc = "sitemaps" => SentInOrder)
  /\ <>(run.at \in {"upload", "returned"})

\* C35 witness: 21 updates have gone out in three calls of 10, 10 and 1
C35_Witness ==
  /\ run.at = "upload"
  /\ Len(run.keys) = 21
  /\ Len(run.sent) = 3
  /\ Len(run.sent[3]) = 1

====
